---- MODULE Spec2Model ----
(***************************************************************************)
(* A model of the jpgx (ts-jpeg) JPEG codec: the decoder of                *)
(* src/src/decoder.ts (class JpegImage and the exported decode function).  *)
(*                                                                         *)
(* JavaScript values are modelled as follows: a byte array is a sequence   *)
(* of integers 0..255 (index i of the code is index i+1 here), the value   *)
(* undefined is Undef, a thrown error is the string naming its kind.       *)
(***************************************************************************)
EXTENDS Integers, Sequences, FiniteSets, TLC

VARIABLES
    totalBytesAllocated,  \* JpegImage.totalBytesAllocated (static)
    maxMemoryUsageBytes,  \* JpegImage.maxMemoryUsageBytes (static)
    budgetLog,            \* the last direct call of the budget and what it found
    pc,                   \* where the current call of decode stands
    arr,                  \* decode: arr, the bytes it was called with
    decoder,              \* decode: decoder, the JpegImage (opts, width, height,
                          \* jfif, adobe, components, comments, exifBuffer)
    parser,               \* the locals of parse (offset, fileMarker, jfif, adobe,
                          \* frame, frames.length, resetInterval, the tables,
                          \* malformedDataOffset) and reads, the number of
                          \* markers read so far
    image,                \* decode: image
    err,                  \* the kind of the error decode threw, or "none"
    getDataLog,           \* the local colorTransform of the last call of getData
    scanLog,              \* the arguments of the last call of decodeScan
    requestLog,           \* what the requests of this call of decode added up to
    prevErr,              \* how the call of decode before this one ended
    callLog,              \* what this call of decode was given (the arguments of
                          \* encode when arr is an output of encode) and the
                          \* SOF cases it has entered
    enc,                  \* a JPEGEncoder (byteout, bytenew, bytepos,
                          \* currentQuality, YTable, UVTable) and its last call
    unit                  \* the last call of a function of the codec made on
                          \* its own: its name, its arguments and its result

decodeVars ==
    <<pc, arr, decoder, parser, image, err, getDataLog, scanLog, requestLog, prevErr,
      callLog>>

vars == <<totalBytesAllocated, maxMemoryUsageBytes, budgetLog, decodeVars, enc, unit>>

(***************************************************************************)
(* Bounds of the model.                                                    *)
(***************************************************************************)
\* the largest ceiling (in bytes) and the largest request the budget
\* specification tries
MaxCeiling == 6
MaxDelta == 4
\* the largest number of components of a frame, and the largest number of
\* 8x8 blocks in a line of the images decoded
MaxComponents == 4
MaxBlocksPerLine == 2
\* the largest number of markers a call of decode is let read
MaxReads == 400

(***************************************************************************)
(* MemoryBudget: the two static counters of JpegImage.                     *)
(***************************************************************************)
BytesPerMB == 1024 * 1024

\* Math.ceil(a / b) for b > 0
CeilDiv(a, b) == -((-a) \div b)

\* a reset that assigns the ceiling and leaves the counter as it finds it
resetMaxMemoryUsage_KeepCounter(maxMemoryUsageBytes_) ==
    [total |-> totalBytesAllocated, max |-> maxMemoryUsageBytes_]

\* resetMaxMemoryUsage(maxMemoryUsageBytes_): the two statics after the call
resetMaxMemoryUsage(maxMemoryUsageBytes_) ==
    [total |-> 0, max |-> maxMemoryUsageBytes_]

\* a request that adds to the counter before it compares with the ceiling
requestMemoryAllocation_AddThenCheck(total, max, increaseAmount) ==
    LET totalMemoryImpactBytes == total + increaseAmount
    IN  [ok |-> ~(totalMemoryImpactBytes > max), total |-> totalMemoryImpactBytes,
         exceededAmount |-> 0]

\* a request that compares with >= where the code compares with >
requestMemoryAllocation_AtLeast(total, max, increaseAmount) ==
    LET totalMemoryImpactBytes == total + increaseAmount
    IN  IF totalMemoryImpactBytes >= max
        THEN [ok |-> FALSE, total |-> total, exceededAmount |-> 0]
        ELSE [ok |-> TRUE, total |-> totalMemoryImpactBytes, exceededAmount |-> 0]

\* requestMemoryAllocation(increaseAmount) called with the statics (total, max):
\* ok = FALSE is the thrown 'maxMemoryUsageInMB limit exceeded' error
requestMemoryAllocation(total, max, increaseAmount) ==
    LET totalMemoryImpactBytes == total + increaseAmount
    IN  IF totalMemoryImpactBytes > max
        THEN [ok |-> FALSE, total |-> total,
              exceededAmount |-> CeilDiv(totalMemoryImpactBytes - max, BytesPerMB)]
        ELSE [ok |-> TRUE, total |-> totalMemoryImpactBytes, exceededAmount |-> 0]

NoBudgetOp ==
    [op |-> "none", delta |-> 0, before |-> 0, maxBefore |-> 0, ok |-> TRUE,
     prevFailed |-> FALSE]

(***************************************************************************)
(* JavaScript values.                                                      *)
(***************************************************************************)
\* undefined: what an index outside an array, or a variable never assigned,
\* reads as.  No byte, length or table value of the model is negative.
Undef == -1
Min(a, b) == IF a < b THEN a ELSE b
Max(a, b) == IF a > b THEN a ELSE b

\* const value = ...; followed by Body, which reads it: the value is
\* computed once, where the code assigns the local
Let(value, Body(_)) == Body(value)

\* ToInt32 of a byte or of undefined, as the operators <<, >>, | and & apply it
ToInt(x) == IF x = Undef THEN 0 ELSE x

\* data[i] of a byte array
At(data, i) == IF 0 <= i /\ i < Len(data) THEN data[i + 1] ELSE Undef

\* data.subarray(begin, end): both ends clamped to the array (neither is
\* negative where parse calls it)
SubArray(data, begin, end) ==
    LET b == Min(Max(begin, 0), Len(data))
        e == Min(Max(end, 0), Len(data))
    IN  IF e <= b THEN <<>> ELSE SubSeq(data, b + 1, e)

\* a >> n for n >= 0 (arithmetic shift: rounds towards minus infinity)
Shr(a, n) == a \div (2 ^ n)

\* a < 0 ? 0 : a > 255 ? 255 : a
clampTo8bit(a) == IF a < 0 THEN 0 ELSE IF a > 255 THEN 255 ELSE a

\* (data[offset] << 8) | data[offset + 1] of readUint16; the caller adds 2 to
\* offset
readUint16(data, offset) == ToInt(At(data, offset)) * 256 + ToInt(At(data, offset + 1))

\* JpegImage.dctZigZag
dctZigZag ==
    << 0,  1,  8, 16,  9,  2,  3, 10,
      17, 24, 32, 25, 18, 11,  4,  5,
      12, 19, 26, 33, 40, 48, 41, 34,
      27, 20, 13,  6,  7, 14, 21, 28,
      35, 42, 49, 56, 57, 50, 43, 36,
      29, 22, 15, 23, 30, 37, 44, 51,
      58, 59, 52, 45, 38, 31, 39, 46,
      53, 60, 61, 54, 47, 55, 62, 63 >>

dctCos1 == 4017
dctSin1 == 799
dctCos3 == 3406
dctSin3 == 2276
dctCos6 == 1567
dctSin6 == 3784
dctSqrt2 == 5793
dctSqrt1d2 == 2896

(***************************************************************************)
(* buildHuffmanTable.  A node {children, index} of the code is identified  *)
(* by its path from the root (a sequence of 0 and 1); the tree is the      *)
(* function from the paths that were assigned to what children[..] holds   *)
(* there: a symbol, or Node for a children array.  code is the stack of    *)
(* [path, index] records; p is always the top of the stack or the node     *)
(* just popped.                                                            *)
(***************************************************************************)
Node == -3

TreePut(tree, path, v) ==
    [x \in (DOMAIN tree) \cup {path} |-> IF x = path THEN v ELSE tree[x]]

EmptyTree == [x \in {} |-> Node]

\* while (length > 0 && !codeLengths[length - 1]) length--
RECURSIVE HuffmanLength(_, _)
HuffmanLength(codeLengths, length) ==
    IF length > 0 /\ ToInt(At(codeLengths, length - 1)) = 0
    THEN HuffmanLength(codeLengths, length - 1)
    ELSE length

\* while (p.index > 0) { if (code.length === 0) throw ...; p = code.pop() }
\* st = [code, p, tree, ok]
RECURSIVE HuffmanPopFull(_)
HuffmanPopFull(st) ==
    IF st.p.index > 0
    THEN IF Len(st.code) = 0
         THEN [st EXCEPT !.ok = FALSE]
         ELSE HuffmanPopFull([st EXCEPT !.p = st.code[Len(st.code)],
                                        !.code = SubSeq(st.code, 1, Len(st.code) - 1)])
    ELSE st

\* while (code.length <= i) { code.push(q = {children: [], index: 0});
\*                            p.children[p.index] = q.children; p = q }
RECURSIVE HuffmanPushDown(_, _)
HuffmanPushDown(st, i) ==
    IF Len(st.code) <= i
    THEN LET qPath == Append(st.p.path, st.p.index)
             q == [path |-> qPath, index |-> 0]
         IN  HuffmanPushDown([st EXCEPT !.code = Append(st.code, q),
                                        !.tree = TreePut(st.tree, qPath, Node),
                                        !.p = q], i)
    ELSE st

\* one pass of the inner loop (for j) of buildHuffmanTable, at level i, for
\* the symbol values[k]
HuffmanAddCode(st, i, value) ==
    LET top == st.code[Len(st.code)]
    IN  Let(HuffmanPopFull(
                [st EXCEPT !.p = top,
                           !.code = SubSeq(st.code, 1, Len(st.code) - 1),
                           !.tree = TreePut(st.tree, Append(top.path, top.index), value)]),
            LAMBDA s2 :
            LET p3 == [s2.p EXCEPT !.index = s2.p.index + 1]
            IN  IF ~s2.ok THEN s2
                ELSE HuffmanPushDown([s2 EXCEPT !.p = p3, !.code = Append(s2.code, p3)], i))

\* the inner loop (for j) of buildHuffmanTable at level i, for the n symbols
\* from values[k] on: the first half of them, then the others
RECURSIVE HuffmanAddCodes(_, _, _, _, _)
HuffmanAddCodes(st, i, values, k, n) ==
    IF ~st.ok \/ n <= 0 THEN st
    ELSE IF n = 1 THEN HuffmanAddCode(st, i, At(values, k))
    ELSE Let(HuffmanAddCodes(st, i, values, k, n \div 2), LAMBDA half :
             HuffmanAddCodes(half, i, values, k + n \div 2, n - n \div 2))

\* the loops for (i) and for (j) of buildHuffmanTable, from (i, j) on, k
\* symbols placed so far
RECURSIVE HuffmanLevels(_, _, _, _, _, _, _)
HuffmanLevels(st, codeLengths, values, length, i, j, k) ==
    IF ~st.ok \/ i >= length THEN st
    ELSE Let(HuffmanAddCodes(st, i, values, k, ToInt(At(codeLengths, i)) - j), LAMBDA s1 :
             LET qPath == Append(s1.p.path, s1.p.index)
                 q == [path |-> qPath, index |-> 0]
                 k1 == k + Max(ToInt(At(codeLengths, i)) - j, 0)
             IN  IF ~s1.ok THEN s1
                 ELSE IF i + 1 < length
                 THEN HuffmanLevels([s1 EXCEPT !.code = Append(s1.code, q),
                                               !.tree = TreePut(s1.tree, qPath, Node),
                                               !.p = q],
                                    codeLengths, values, length, i + 1, 0, k1)
                 ELSE HuffmanLevels(s1, codeLengths, values, length, i + 1, 0, k1))

\* the symbols placed in the tree in the opposite order
buildHuffmanTable_Reversed(codeLengths, values) ==
    LET root == [path |-> <<>>, index |-> 0]
    IN  Let(HuffmanLevels([code |-> <<root>>, p |-> root, tree |-> EmptyTree, ok |-> TRUE],
                          codeLengths,
                          [j \in 1..Len(values) |-> values[Len(values) + 1 - j]],
                          HuffmanLength(codeLengths, 16), 0, 0, 0),
            LAMBDA st : [ok |-> st.ok, tree |-> st.tree])

\* buildHuffmanTable(codeLengths, values): ok = FALSE is the thrown
\* 'Could not recreate Huffman Table'; tree is code[0].children
buildHuffmanTable(codeLengths, values) ==
    LET root == [path |-> <<>>, index |-> 0]
    IN  Let(HuffmanLevels([code |-> <<root>>, p |-> root, tree |-> EmptyTree, ok |-> TRUE],
                          codeLengths, values, HuffmanLength(codeLengths, 16), 0, 0, 0),
            LAMBDA st : [ok |-> st.ok, tree |-> st.tree])

\* a slot of huffmanTablesDC / huffmanTablesAC, or the huffmanTableDC /
\* huffmanTableAC of a component, that nothing was assigned to
UndefTable == [defined |-> FALSE, tree |-> EmptyTree]

(***************************************************************************)
(* decodeScan.  S is the state of one call: the cursor and the bit buffer  *)
(* (offset, bitsData, bitsCount), eobrun, the state of the successive AC   *)
(* decoder, the frame's components (comps: component id -> component,      *)
(* which the scan's components refer to by id as the code's array refers   *)
(* to the frame's objects) and err, the kind of the error thrown ("none"   *)
(* while none was).                                                        *)
(***************************************************************************)
NoError == "none"

Throw(S, kind) == IF S.err = NoError THEN [S EXCEPT !.err = kind] ELSE S

\* readBit(): the bit and the state after.  As the code, it never returns
\* null.  A byte 0xFF followed by a byte other than 0 is the thrown
\* 'unexpected marker'; followed by 0, or by the end of the data, it is the
\* byte 0xFF.  Past the end of the data every bit read is 0.
readBit(data, S) ==
    IF S.bitsCount > 0
    THEN [bit |-> Shr(ToInt(S.bitsData), S.bitsCount - 1) % 2,
          s |-> [S EXCEPT !.bitsCount = S.bitsCount - 1]]
    ELSE Let(At(data, S.offset), LAMBDA bitsData :
             IF bitsData = 255
             THEN Let(At(data, S.offset + 1), LAMBDA nextByte :
                      IF nextByte # Undef /\ nextByte # 0
                      THEN [bit |-> 0,
                            s |-> [S EXCEPT !.offset = S.offset + 2,
                                            !.bitsData = bitsData,
                                            !.err = "unexpected marker"]]
                      ELSE [bit |-> 1,
                            s |-> [S EXCEPT !.offset = S.offset + 2,
                                            !.bitsData = bitsData, !.bitsCount = 7]])
             ELSE [bit |-> Shr(ToInt(bitsData), 7),
                   s |-> [S EXCEPT !.offset = S.offset + 1,
                                   !.bitsData = bitsData, !.bitsCount = 7]])

\* decodeHuffman(tree), from the node at path on: the symbol and the state
\* after.  A table never defined is undefined, and node[bit] of it a TypeError.
RECURSIVE HuffmanWalk(_, _, _, _)
HuffmanWalk(data, table, path, S) ==
    Let(readBit(data, S), LAMBDA r :
        LET next == Append(path, r.bit)
        IN  IF r.s.err # NoError THEN [val |-> 0, s |-> r.s]
            ELSE IF ~table.defined THEN [val |-> 0, s |-> Throw(r.s, "TypeError")]
            ELSE IF next \notin DOMAIN table.tree
            THEN [val |-> 0, s |-> Throw(r.s, "invalid huffman sequence")]
            ELSE IF table.tree[next] = Node THEN HuffmanWalk(data, table, next, r.s)
            ELSE [val |-> table.tree[next], s |-> r.s])

decodeHuffman(data, table, S) == HuffmanWalk(data, table, <<>>, S)

\* receive(length), n being the bits read so far
RECURSIVE receiveFrom(_, _, _, _)
receiveFrom(data, length, n, S) ==
    IF length > 0 /\ S.err = NoError
    THEN Let(readBit(data, S), LAMBDA r :
             receiveFrom(data, length - 1, n * 2 + r.bit, r.s))
    ELSE [val |-> n, s |-> S]

receive(data, length, S) == receiveFrom(data, length, 0, S)

\* receiveAndExtend(length); for length = 0 the code compares n = 0 with
\* 1 << -1, a negative number, and returns n
receiveAndExtend(data, length, S) ==
    Let(receive(data, length, S), LAMBDA r :
        IF length = 0 \/ r.val >= 2 ^ (length - 1)
        THEN r
        ELSE [val |-> r.val - (2 ^ length) + 1, s |-> r.s])

\* A block the decode functions write to: zz.defined = FALSE is the
\* undefined of a column outside the row, any read or write of which is a
\* TypeError.  zz[z] = v leaves the array alone when z is undefined (k > 63).
ZeroBlock == [i \in 1..64 |-> 0]

ZigZagAt(k) == IF 0 <= k /\ k <= 63 THEN dctZigZag[k + 1] ELSE Undef

BlockGet(block, z) == IF z = Undef THEN 0 ELSE block[z + 1]

BlockPut(block, z, v) == IF z = Undef THEN block ELSE [block EXCEPT ![z + 1] = v]

\* component.blocks[row][col]: blocks holds the blocks written so far, every
\* other block of the grid is the new Int32Array(64) of prepareComponents
BlockOf(component, rc) ==
    IF rc \in DOMAIN component.blocks THEN component.blocks[rc] ELSE ZeroBlock

TheBlock(S, zz) == BlockOf(S.comps[zz.id], <<zz.row, zz.col>>)

SetBlock(S, zz, block) ==
    [S EXCEPT !.comps[zz.id].blocks = (<<zz.row, zz.col>> :> block) @@ @]

\* zz[z] = v for the block zz refers to
WriteCoefficient(S, zz, z, v) ==
    IF S.err # NoError THEN S
    ELSE IF ~zz.defined THEN Throw(S, "TypeError")
    ELSE SetBlock(S, zz, BlockPut(TheBlock(S, zz), z, v))

\* the loop while (k < 64) of decodeBaseline
RECURSIVE decodeBaselineAC(_, _, _, _)
decodeBaselineAC(data, S, zz, k) ==
    IF S.err # NoError \/ k >= 64 THEN S
    ELSE Let(decodeHuffman(data, S.comps[zz.id].huffmanTableAC, S), LAMBDA h :
             LET s == h.val % 16
                 r == h.val \div 16
             IN  IF h.s.err # NoError THEN h.s
                 ELSE IF s = 0
                 THEN IF r < 15 THEN h.s ELSE decodeBaselineAC(data, h.s, zz, k + 16)
                 ELSE Let(receiveAndExtend(data, s, h.s), LAMBDA v :
                          decodeBaselineAC(
                              data, WriteCoefficient(v.s, zz, ZigZagAt(k + r), v.val),
                              zz, k + r + 1)))

\* decodeBaseline(component, zz)
decodeBaseline(data, S, zz) ==
    Let(decodeHuffman(data, S.comps[zz.id].huffmanTableDC, S), LAMBDA t :
        IF t.s.err # NoError THEN t.s
        ELSE Let(IF t.val = 0 THEN [val |-> 0, s |-> t.s]
                 ELSE receiveAndExtend(data, t.val, t.s), LAMBDA d :
                 LET pred == S.comps[zz.id].pred + d.val
                 IN  IF d.s.err # NoError THEN d.s
                     ELSE decodeBaselineAC(
                              data,
                              WriteCoefficient([d.s EXCEPT !.comps[zz.id].pred = pred],
                                               zz, 0, pred),
                              zz, 1)))

\* decodeDCFirst(component, zz); sc holds the scan's parameters
decodeDCFirst(data, S, zz, sc) ==
    Let(decodeHuffman(data, S.comps[zz.id].huffmanTableDC, S), LAMBDA t :
        IF t.s.err # NoError THEN t.s
        ELSE Let(receiveAndExtend(data, t.val, t.s), LAMBDA a :
                 LET diff == IF t.val = 0 THEN 0 ELSE a.val * (2 ^ sc.successive)
                     pred == S.comps[zz.id].pred + diff
                 IN  IF a.s.err # NoError THEN a.s
                     ELSE WriteCoefficient([a.s EXCEPT !.comps[zz.id].pred = pred],
                                           zz, 0, pred)))

\* a | b for b a single bit 2^n: zz[0] |= readBit() << successive
OrBit(a, bit, n) ==
    IF bit = 0 \/ Shr(a, n) % 2 = 1 THEN a ELSE a + 2 ^ n

\* decodeDCSuccessive(component, zz): zz[0] is read before the bit is
decodeDCSuccessive(data, S, zz, sc) ==
    IF ~zz.defined THEN Throw(S, "TypeError")
    ELSE Let(readBit(data, S), LAMBDA r :
             IF r.s.err # NoError THEN r.s
             ELSE WriteCoefficient(r.s, zz, 0,
                                   OrBit(BlockGet(TheBlock(r.s, zz), 0), r.bit, sc.successive)))

\* k <= e is false from the start when spectralStart or spectralEnd was read
\* past the end of the data
BandEmpty(sc) == sc.spectralStart = Undef \/ sc.spectralEnd = Undef

\* the loop while (k <= e) of decodeACFirst
RECURSIVE decodeACFirstBand(_, _, _, _, _)
decodeACFirstBand(data, S, zz, sc, k) ==
    IF S.err # NoError \/ k > sc.spectralEnd THEN S
    ELSE Let(decodeHuffman(data, S.comps[zz.id].huffmanTableAC, S), LAMBDA h :
             LET s == h.val % 16
                 r == h.val \div 16
             IN  IF h.s.err # NoError THEN h.s
                 ELSE IF s = 0
                 THEN IF r < 15
                      THEN Let(receive(data, r, h.s), LAMBDA b :
                               IF b.s.err # NoError THEN b.s
                               ELSE [b.s EXCEPT !.eobrun = b.val + (2 ^ r) - 1])
                      ELSE decodeACFirstBand(data, h.s, zz, sc, k + 16)
                 ELSE Let(receiveAndExtend(data, s, h.s), LAMBDA v :
                          decodeACFirstBand(
                              data,
                              WriteCoefficient(v.s, zz, ZigZagAt(k + r),
                                               v.val * (2 ^ sc.successive)),
                              zz, sc, k + r + 1)))

\* decodeACFirst(component, zz)
decodeACFirst(data, S, zz, sc) ==
    IF S.eobrun > 0 THEN [S EXCEPT !.eobrun = S.eobrun - 1]
    ELSE IF BandEmpty(sc) THEN S
    ELSE decodeACFirstBand(data, S, zz, sc, sc.spectralStart)

\* zz[z] += (readBit() << successive) * direction, in states 1 to 4 of
\* decodeACSuccessive
RefineCoefficient(data, S, zz, sc, z) ==
    Let(BlockGet(TheBlock(S, zz), z), LAMBDA old :
        Let(readBit(data, S), LAMBDA r :
            IF r.s.err # NoError THEN r.s
            ELSE WriteCoefficient(
                     r.s, zz, z,
                     old + r.bit * (2 ^ sc.successive) * (IF old < 0 THEN -1 ELSE 1))))

\* every skipped run followed by the placing of a value
AfterSkipping_AlwaysPlace(successiveACState) == 3

\* successiveACState === 2 ? 3 : 0, the state after the last of the r zero
\* items was skipped
AfterSkipping(successiveACState) == IF successiveACState = 2 THEN 3 ELSE 0

\* one pass of the loop while (k <= e) of decodeACSuccessive, entered with
\* k <= e: the state after it, and the k and the local r after it
ACSuccessivePass(data, S, zz, sc, k, r) ==
    IF ~zz.defined THEN [s |-> Throw(S, "TypeError"), k |-> k, r |-> r]
    ELSE LET z == ZigZagAt(k)
             nonzero == BlockGet(TheBlock(S, zz), z) # 0
         IN  CASE S.successiveACState = 0 ->
                    Let(decodeHuffman(data, S.comps[zz.id].huffmanTableAC, S), LAMBDA h :
                        LET s == h.val % 16
                            rr == h.val \div 16
                        IN  IF h.s.err # NoError THEN [s |-> h.s, k |-> k, r |-> r]
                            ELSE IF s = 0
                            THEN IF rr < 15
                                 THEN Let(receive(data, rr, h.s), LAMBDA b :
                                          IF b.s.err # NoError
                                          THEN [s |-> b.s, k |-> k, r |-> rr]
                                          ELSE [s |-> [b.s EXCEPT
                                                          !.eobrun = b.val + 2 ^ rr,
                                                          !.successiveACState = 4],
                                                k |-> k, r |-> rr])
                                 ELSE [s |-> [h.s EXCEPT !.successiveACState = 1],
                                       k |-> k, r |-> 16]
                            ELSE IF s # 1
                            THEN [s |-> Throw(h.s, "invalid ACn encoding"),
                                  k |-> k, r |-> rr]
                            ELSE Let(receiveAndExtend(data, s, h.s), LAMBDA v :
                                     IF v.s.err # NoError
                                     THEN [s |-> v.s, k |-> k, r |-> rr]
                                     ELSE [s |-> [v.s EXCEPT
                                                     !.successiveACNextValue = v.val,
                                                     !.successiveACState =
                                                         IF rr # 0 THEN 2 ELSE 3],
                                           k |-> k, r |-> rr]))
               [] S.successiveACState \in {1, 2} ->
                    IF nonzero
                    THEN [s |-> RefineCoefficient(data, S, zz, sc, z),
                          k |-> k + 1, r |-> r]
                    ELSE [s |-> IF r - 1 = 0
                                THEN [S EXCEPT !.successiveACState =
                                                   AfterSkipping(S.successiveACState)]
                                ELSE S,
                          k |-> k + 1, r |-> r - 1]
               [] S.successiveACState = 3 ->
                    IF nonzero
                    THEN [s |-> RefineCoefficient(data, S, zz, sc, z),
                          k |-> k + 1, r |-> r]
                    ELSE [s |-> [WriteCoefficient(
                                     S, zz, z,
                                     S.successiveACNextValue * (2 ^ sc.successive))
                                    EXCEPT !.successiveACState = 0],
                          k |-> k + 1, r |-> r]
               [] OTHER ->
                    IF nonzero
                    THEN [s |-> RefineCoefficient(data, S, zz, sc, z),
                          k |-> k + 1, r |-> r]
                    ELSE [s |-> S, k |-> k + 1, r |-> r]

\* the loop while (k <= e) of decodeACSuccessive; r is its local r
RECURSIVE decodeACSuccessiveBand(_, _, _, _, _, _)
decodeACSuccessiveBand(data, S, zz, sc, k, r) ==
    IF S.err # NoError \/ k > sc.spectralEnd THEN S
    ELSE Let(ACSuccessivePass(data, S, zz, sc, k, r), LAMBDA n :
             decodeACSuccessiveBand(data, n.s, zz, sc, n.k, n.r))

\* decodeACSuccessive(component, zz)
decodeACSuccessive(data, S, zz, sc) ==
    Let(IF BandEmpty(sc) THEN S
        ELSE decodeACSuccessiveBand(data, S, zz, sc, sc.spectralStart, 0), LAMBDA s1 :
        IF s1.err # NoError \/ s1.successiveACState # 4 THEN s1
        ELSE IF s1.eobrun - 1 = 0
        THEN [s1 EXCEPT !.eobrun = 0, !.successiveACState = 0]
        ELSE [s1 EXCEPT !.eobrun = s1.eobrun - 1])

\* decodeFn as decodeScan chooses it, applied to one block
decodeFn(data, S, zz, sc) ==
    IF sc.progressive
    THEN IF sc.spectralStart = 0
         THEN IF sc.successivePrev = 0
              THEN decodeDCFirst(data, S, zz, sc)
              ELSE decodeDCSuccessive(data, S, zz, sc)
         ELSE IF sc.successivePrev = 0
              THEN decodeACFirst(data, S, zz, sc)
              ELSE decodeACSuccessive(data, S, zz, sc)
    ELSE decodeBaseline(data, S, zz)

\* decode(component, component.blocks[blockRow][blockCol]) behind the test
\* of decodeMcu and decodeBlock: a missing row is skipped under
\* tolerantDecoding and a TypeError otherwise, a missing column of a row
\* that exists is passed on as undefined
decodeAt(data, S, sc, id, blockRow, blockCol) ==
    LET c == S.comps[id]
        rowDefined == 0 <= blockRow /\ blockRow < c.blocksPerColumnForMcu
        colDefined == 0 <= blockCol /\ blockCol < c.blocksPerLineForMcu
    IN  IF S.err # NoError THEN S
        ELSE IF ~rowDefined
        THEN IF sc.tolerantDecoding THEN S ELSE Throw(S, "TypeError")
        ELSE decodeFn(data, S,
                      [defined |-> colDefined, id |-> id, row |-> blockRow, col |-> blockCol],
                      sc)

\* blockRow and blockCol of decodeMcu
DecodeMcuIndex(component, mcusPerLine, mcu, row, col) ==
    <<(mcu \div mcusPerLine) * component.v + row,
      (mcu % mcusPerLine) * component.h + col>>

\* decodeMcu(component, decodeFn, mcu, row, col)
decodeMcu(data, S, sc, id, mcu, row, col) ==
    Let(DecodeMcuIndex(S.comps[id], sc.mcusPerLine, mcu, row, col), LAMBDA at :
        decodeAt(data, S, sc, id, at[1], at[2]))

\* the blocks counted down the columns
DecodeBlockIndex_ByColumn(component, mcu) ==
    <<mcu % component.blocksPerLine, mcu \div component.blocksPerLine>>

\* blockRow and blockCol of decodeBlock
DecodeBlockIndex(component, mcu) ==
    <<mcu \div component.blocksPerLine, mcu % component.blocksPerLine>>

\* decodeBlock(component, decodeFn, mcu)
decodeBlock(data, S, sc, id, mcu) ==
    Let(DecodeBlockIndex(S.comps[id], mcu), LAMBDA at :
        decodeAt(data, S, sc, id, at[1], at[2]))

\* the loops over i, j and k of one MCU of a scan of several components
RECURSIVE decodeMcuBlocks(_, _, _, _, _, _, _)
decodeMcuBlocks(data, S, sc, mcu, i, j, k) ==
    IF S.err # NoError \/ i > Len(sc.components) THEN S
    ELSE LET id == sc.components[i]
         IN  IF j >= S.comps[id].v THEN decodeMcuBlocks(data, S, sc, mcu, i + 1, 0, 0)
             ELSE IF k >= S.comps[id].h THEN decodeMcuBlocks(data, S, sc, mcu, i, j + 1, 0)
             ELSE decodeMcuBlocks(data, decodeMcu(data, S, sc, id, mcu, j, k),
                                  sc, mcu, i, j, k + 1)

\* the loop over n: one restart interval.  A scan of one component runs all
\* resetInterval blocks; a scan of several stops at mcuExpected.
RECURSIVE decodeInterval(_, _, _, _, _, _, _)
decodeInterval(data, S, sc, mcu, n, mcuExpected, resetInterval) ==
    IF S.err # NoError \/ n >= resetInterval THEN [s |-> S, mcu |-> mcu]
    ELSE IF Len(sc.components) = 1
    THEN decodeInterval(data, decodeBlock(data, S, sc, sc.components[1], mcu),
                        sc, mcu + 1, n + 1, mcuExpected, resetInterval)
    ELSE Let(decodeMcuBlocks(data, S, sc, mcu, 1, 0, 0), LAMBDA s1 :
             IF mcu + 1 = mcuExpected THEN [s |-> s1, mcu |-> mcu + 1]
             ELSE decodeInterval(data, s1, sc, mcu + 1, n + 1, mcuExpected, resetInterval))

\* components[i].pred = 0 for the components of the scan from i on
RECURSIVE ResetPred(_, _, _)
ResetPred(comps, ids, i) ==
    IF i > Len(ids) THEN comps
    ELSE ResetPred([comps EXCEPT ![ids[i]].pred = 0], ids, i + 1)

\* skip trailing bytes at the end of the scan, until the next marker
RECURSIVE SkipTrailing(_, _)
SkipTrailing(data, offset) ==
    IF At(data, offset) = 255 /\ At(data, offset + 1) # 0 THEN offset
    ELSE IF offset + 1 < Len(data) - 2 THEN SkipTrailing(data, offset + 1)
    ELSE offset + 1

IsRST(marker) == marker >= 65488 /\ marker <= 65495

\* a restart that keeps the end-of-band run
IntervalStart_KeepRun(S, sc) ==
    [S EXCEPT !.comps = ResetPred(S.comps, sc.components, 1)]

\* the start of a restart interval: components[i].pred = 0 and eobrun = 0
IntervalStart(S, sc) ==
    [S EXCEPT !.comps = ResetPred(S.comps, sc.components, 1), !.eobrun = 0]

\* the end of a restart interval that stopped at mcu: the marker looked for
\* after it.  again says that it was RSTn and the loop goes on.
IntervalEnd(data, S, mcu, mcuExpected) ==
    Let(IF mcu = mcuExpected THEN SkipTrailing(data, S.offset) ELSE S.offset,
        LAMBDA offset :
        Let(readUint16(data, offset), LAMBDA marker :
            IF S.err # NoError THEN [s |-> S, again |-> FALSE]
            ELSE IF marker < 65280
            THEN [s |-> Throw(S, "marker was not found"), again |-> FALSE]
            ELSE IF IsRST(marker)
            THEN [s |-> [S EXCEPT !.offset = offset + 2, !.bitsCount = 0],
                  again |-> TRUE]
            ELSE [s |-> [S EXCEPT !.offset = offset, !.bitsCount = 0],
                  again |-> FALSE]))

\* the loop while (mcu < mcuExpected)
RECURSIVE decodeIntervals(_, _, _, _, _, _)
decodeIntervals(data, S, sc, mcu, mcuExpected, resetInterval) ==
    IF S.err # NoError \/ mcu >= mcuExpected THEN S
    ELSE Let(decodeInterval(data, IntervalStart(S, sc), sc, mcu, 0, mcuExpected,
                            resetInterval), LAMBDA r :
         Let(IntervalEnd(data, r.s, r.mcu, mcuExpected), LAMBDA e :
             IF e.again
             THEN decodeIntervals(data, e.s, sc, r.mcu, mcuExpected, resetInterval)
             ELSE e.s))

\* the reader and the decoder state that decodeScan starts with: bitsData,
\* bitsCount, eobrun and successiveACState are its own variables
ScanStart(offset, frame) ==
    [offset |-> offset, bitsData |-> 0, bitsCount |-> 0, eobrun |-> 0,
     successiveACState |-> 0, successiveACNextValue |-> Undef,
     comps |-> frame.components, err |-> NoError]

\* mcuExpected of decodeScan
McuExpected(frame, sc) ==
    IF Len(sc.components) = 1
    THEN frame.components[sc.components[1]].blocksPerLine
         * frame.components[sc.components[1]].blocksPerColumn
    ELSE frame.mcusPerLine * frame.mcusPerColumn

\* decodeScan(data, offset, frame, components, resetInterval, spectralStart,
\* spectralEnd, successivePrev, successive): the frame's components after
\* the scan, the offset it stopped at (the code returns offset - startOffset
\* and its caller adds that to startOffset) and the error thrown
decodeScan(data, offset, frame, sc) ==
    LET mcuExpected == McuExpected(frame, sc)
        resetInterval == IF sc.resetInterval = 0 THEN mcuExpected ELSE sc.resetInterval
    IN  decodeIntervals(data, ScanStart(offset, frame), sc, 0, mcuExpected, resetInterval)

(***************************************************************************)
(* The handlers of parse, one per marker.  Each takes the budget as the    *)
(* record M = [total, max, granted, failed, err]: the two statics, the sum *)
(* of the requests granted and the amount of the request refused since     *)
(* decode was entered, and the error thrown so far.                        *)
(***************************************************************************)
MemoryLimitExceeded == "maxMemoryUsageInMB limit exceeded"
ResolutionExceeded == "maxResolutionInMP limit exceeded"

\* JpegImage.requestMemoryAllocation(increaseAmount) in a handler
Alloc(M, increaseAmount) ==
    IF M.err # NoError THEN M
    ELSE Let(requestMemoryAllocation(M.total, M.max, increaseAmount), LAMBDA r :
             IF r.ok
             THEN [M EXCEPT !.total = r.total, !.granted = M.granted + increaseAmount]
             ELSE [M EXCEPT !.err = MemoryLimitExceeded, !.failed = increaseAmount])

\* readDataBlock(): the array read and the offset after it
readDataBlock(data, offset) ==
    Let(SubArray(data, offset + 2, offset + 2 + readUint16(data, offset) - 2), LAMBDA array :
        [array |-> array, offset |-> offset + 2 + Len(array)])

HasPrefix(array, prefix) ==
    \A i \in 1..Len(prefix) : At(array, i - 1) = prefix[i]

NoJfif == [defined |-> FALSE, major |-> Undef, minor |-> Undef]
NoAdobe == [defined |-> FALSE, version |-> Undef, transformCode |-> Undef]
NoExif == [defined |-> FALSE, bytes |-> <<>>]

\* case APP0: 'JFIF\x00'
jfifOf(appData, old) ==
    IF HasPrefix(appData, <<74, 70, 73, 70, 0>>)
    THEN [defined |-> TRUE, major |-> At(appData, 5), minor |-> At(appData, 6)]
    ELSE old

\* case APP1 keeping the whole of appData
exifBufferOf_KeepHeader(appData, old) ==
    IF HasPrefix(appData, <<69, 120, 105, 102, 0>>)
    THEN [defined |-> TRUE, bytes |-> appData]
    ELSE old

\* the first EXIF segment kept
exifBufferOf_FirstWins(appData, old) ==
    IF HasPrefix(appData, <<69, 120, 105, 102, 0>>) /\ ~old.defined
    THEN [defined |-> TRUE, bytes |-> SubArray(appData, 5, Len(appData))]
    ELSE old

\* case APP1: the bytes 0x45 0x78 0x69 0x66 0x00 ('Exif\x00')
exifBufferOf(appData, old) ==
    IF HasPrefix(appData, <<69, 120, 105, 102, 0>>)
    THEN [defined |-> TRUE, bytes |-> SubArray(appData, 5, Len(appData))]
    ELSE old

\* case APP14: 'Adobe\x00'
adobeOf(appData, old) ==
    IF HasPrefix(appData, <<65, 100, 111, 98, 101, 0>>)
    THEN [defined |-> TRUE, version |-> At(appData, 6), transformCode |-> At(appData, 11)]
    ELSE old

\* the j with dctZigZag[j] = z
ZigZagIndex(z) == CHOOSE j \in 0..63 : dctZigZag[j + 1] = z

\* the table of one DQT entry: 64 values of bytesPerValue bytes from offset
\* on, stored at dctZigZag[j]; a value read past the data is stored as 0
QuantizationTableAt(data, offset, bytesPerValue) ==
    [i \in 1..64 |->
        LET j == ZigZagIndex(i - 1)
        IN  IF bytesPerValue = 1 THEN ToInt(At(data, offset + j))
            ELSE readUint16(data, offset + 2 * j)]

\* case DQT from the table at offset on: the loop while (offset < end)
RECURSIVE DQTLoop(_, _, _, _, _)
DQTLoop(data, offset, end, tables, M) ==
    IF M.err # NoError \/ offset >= end
    THEN [offset |-> offset, quantizationTables |-> tables, M |-> M]
    ELSE Let(Alloc(M, 64 * 4), LAMBDA M1 :
             LET quantizationTableSpec == ToInt(At(data, offset))
                 bytesPerValue == (quantizationTableSpec \div 16) + 1
             IN
             IF M1.err # NoError
             THEN [offset |-> offset + 1, quantizationTables |-> tables, M |-> M1]
             ELSE IF bytesPerValue > 2
             THEN [offset |-> offset + 1, quantizationTables |-> tables,
                   M |-> Throw(M1, "DQT: invalid table spec")]
             ELSE DQTLoop(data, offset + 1 + 64 * bytesPerValue, end,
                          (quantizationTableSpec % 16
                               :> QuantizationTableAt(data, offset + 1, bytesPerValue))
                            @@ tables,
                          M1))

\* case DQT
DQT(data, offset, tables, M) ==
    DQTLoop(data, offset + 2, readUint16(data, offset) + offset + 2 - 2, tables, M)

\* codeLengthSum over j < n of the 16 lengths at offset
RECURSIVE CodeLengthSum(_, _, _)
CodeLengthSum(data, offset, n) ==
    IF n = 0 THEN 0
    ELSE CodeLengthSum(data, offset, n - 1) + ToInt(At(data, offset + n - 1))

\* case DHT from the table at offset on: the loop for (i = 2; i < huffmanLength;)
RECURSIVE DHTLoop(_, _, _, _, _, _, _)
DHTLoop(data, offset, i, huffmanLength, tablesDC, tablesAC, M) ==
    IF M.err # NoError \/ i >= huffmanLength
    THEN [offset |-> offset, huffmanTablesDC |-> tablesDC, huffmanTablesAC |-> tablesAC,
          M |-> M]
    ELSE Let(CodeLengthSum(data, offset + 1, 16), LAMBDA codeLengthSum :
         Let(Alloc(M, 16 + codeLengthSum), LAMBDA M1 :
             IF M1.err # NoError
             THEN [offset |-> offset + 17, huffmanTablesDC |-> tablesDC,
                   huffmanTablesAC |-> tablesAC, M |-> M1]
             ELSE Let(buildHuffmanTable(
                          [j \in 1..16 |-> ToInt(At(data, offset + j))],
                          [j \in 1..codeLengthSum |-> ToInt(At(data, offset + 16 + j))]),
                      LAMBDA table :
                      LET huffmanTableSpec == ToInt(At(data, offset))
                          after == offset + 17 + codeLengthSum
                          slot == huffmanTableSpec % 16
                      IN  IF ~table.ok
                          THEN [offset |-> after, huffmanTablesDC |-> tablesDC,
                                huffmanTablesAC |-> tablesAC,
                                M |-> Throw(M1, "Could not recreate Huffman Table")]
                          ELSE IF huffmanTableSpec \div 16 = 0
                          THEN DHTLoop(data, after, i + 17 + codeLengthSum, huffmanLength,
                                       (slot :> table.tree) @@ tablesDC, tablesAC, M1)
                          ELSE DHTLoop(data, after, i + 17 + codeLengthSum, huffmanLength,
                                       tablesDC, (slot :> table.tree) @@ tablesAC, M1))))

\* case DHT
DHT(data, offset, tablesDC, tablesAC, M) ==
    DHTLoop(data, offset + 2, 2, readUint16(data, offset), tablesDC, tablesAC, M)

\* huffmanTablesDC[i] or huffmanTablesAC[i]
TableAt(tables, i) ==
    IF i \in DOMAIN tables THEN [defined |-> TRUE, tree |-> tables[i]] ELSE UndefTable

\* the frame before any SOF: the code's frame is undefined then
NoComponents == [id \in {} |-> 0]

NoFrame ==
    [defined |-> FALSE, extended |-> FALSE, progressive |-> FALSE, precision |-> Undef,
     scanLines |-> 0, samplesPerLine |-> 0, components |-> NoComponents,
     componentsOrder |-> <<>>, maxH |-> Undef, maxV |-> Undef,
     mcusPerLine |-> Undef, mcusPerColumn |-> Undef]

\* frame.components[componentId] = { h, v, quantizationIdx }: the fields
\* assigned later are undefined.  blocksPerColumnForMcu and
\* blocksPerLineForMcu are blocks.length and blocks[0].length; blocks maps
\* the <<row, column>> of each block written since to its 64 coefficients.
NewComponent(h, v, qId) ==
    [h |-> h, v |-> v, quantizationIdx |-> qId,
     blocksPerLine |-> Undef, blocksPerColumn |-> Undef,
     blocksPerLineForMcu |-> 0, blocksPerColumnForMcu |-> 0,
     blocks |-> [rc \in {} |-> ZeroBlock],
     huffmanTableDC |-> UndefTable, huffmanTableAC |-> UndefTable, pred |-> 0,
     quantizationTable |-> [defined |-> FALSE, table |-> ZeroBlock]]

\* the order of for (componentId in frame.components): the integer keys
\* ascending, then the key undefined of an id read past the end of the data
RECURSIVE KeysInOrder(_)
KeysInOrder(keys) ==
    IF keys = {} THEN <<>>
    ELSE LET ints == keys \ {Undef}
             first == IF ints = {} THEN Undef
                      ELSE CHOOSE k \in ints : \A m \in ints : k <= m
         IN  <<first>> \o KeysInOrder(keys \ {first})

\* maxH (field "h") or maxV (field "v") over the components in keys[i..]
RECURSIVE MaxFactor(_, _, _, _)
MaxFactor(comps, keys, i, sofar) ==
    IF i > Len(keys) THEN sofar
    ELSE MaxFactor(comps, keys, i + 1,
                   IF sofar < comps[keys[i]] THEN comps[keys[i]] ELSE sofar)

\* the second loop of prepareComponents, from key i on
RECURSIVE PrepareLoop(_, _, _, _, _, _)
PrepareLoop(frame, keys, i, maxH, maxV, M) ==
    IF M.err # NoError \/ i > Len(keys) THEN [frame |-> frame, M |-> M]
    ELSE LET component == frame.components[keys[i]]
             mcusPerLine == CeilDiv(frame.samplesPerLine, 8 * maxH)
             mcusPerColumn == CeilDiv(frame.scanLines, 8 * maxV)
             blocksPerLine == CeilDiv(CeilDiv(frame.samplesPerLine, 8) * component.h, maxH)
             blocksPerColumn == CeilDiv(CeilDiv(frame.scanLines, 8) * component.v, maxV)
             blocksPerLineForMcu == mcusPerLine * component.h
             blocksPerColumnForMcu == mcusPerColumn * component.v
             blocksToAllocate == blocksPerColumnForMcu * blocksPerLineForMcu
         IN  Let(Alloc(M, blocksToAllocate * 256), LAMBDA M1 :
             IF M1.err # NoError THEN [frame |-> frame, M |-> M1]
             ELSE PrepareLoop(
                      [frame EXCEPT !.components[keys[i]] =
                          [component EXCEPT !.blocksPerLine = blocksPerLine,
                                            !.blocksPerColumn = blocksPerColumn,
                                            !.blocksPerLineForMcu = blocksPerLineForMcu,
                                            !.blocksPerColumnForMcu = blocksPerColumnForMcu,
                                            !.blocks = [rc \in {} |-> ZeroBlock]]],
                      keys, i + 1, maxH, maxV, M1))

\* prepareComponents(frame)
prepareComponents(frame, M) ==
    Let(KeysInOrder(DOMAIN frame.components), LAMBDA keys :
    Let(MaxFactor([k \in DOMAIN frame.components |-> frame.components[k].h], keys, 1, 1),
        LAMBDA maxH :
    Let(MaxFactor([k \in DOMAIN frame.components |-> frame.components[k].v], keys, 1, 1),
        LAMBDA maxV :
    Let(PrepareLoop(frame, keys, 1, maxH, maxV, M), LAMBDA r :
        IF r.M.err # NoError THEN r
        ELSE [frame |-> [r.frame EXCEPT
                            !.maxH = maxH, !.maxV = maxV,
                            !.mcusPerLine = CeilDiv(frame.samplesPerLine, 8 * maxH),
                            !.mcusPerColumn = CeilDiv(frame.scanLines, 8 * maxV)],
              M |-> r.M]))))

\* a test of the sampling factors that lets a factor of 0 pass
InvalidSamplingFactor_Negative(h, v) == h < 0 \/ v < 0

\* if (h <= 0 || v <= 0)
InvalidSamplingFactor(h, v) == h <= 0 \/ v <= 0

\* the loop over the componentsCount components of case SOF
RECURSIVE SOFComponents(_, _, _, _, _, _)
SOFComponents(data, offset, i, componentsCount, frame, M) ==
    IF M.err # NoError \/ i >= componentsCount
    THEN [offset |-> offset, frame |-> frame, M |-> M]
    ELSE LET componentId == At(data, offset)
             h == ToInt(At(data, offset + 1)) \div 16
             v == ToInt(At(data, offset + 1)) % 16
             qId == At(data, offset + 2)
         IN  IF InvalidSamplingFactor(h, v)
             THEN [offset |-> offset, frame |-> frame,
                   M |-> Throw(M, "Invalid sampling factor")]
             ELSE SOFComponents(
                      data, offset + 3, i + 1, componentsCount,
                      [frame EXCEPT
                          !.componentsOrder = Append(frame.componentsOrder, componentId),
                          !.components = (componentId :> NewComponent(h, v, qId))
                                           @@ frame.components],
                      M)

\* (this.opts.maxResolutionInMP || 100) * 1000 * 1000
maxResolutionInPixels(maxResolutionInMP) ==
    (IF maxResolutionInMP = 0 THEN 100 ELSE maxResolutionInMP) * 1000 * 1000

\* case SOF0, SOF1, SOF2 up to frames.push(frame): offset is the offset after
\* the marker.  The resolution is compared before the components are read
\* and before prepareComponents requests any memory.
SOF(data, offset, fileMarker, maxResolutionInMP, M) ==
    Let([NoFrame EXCEPT !.defined = TRUE,
                        !.extended = (fileMarker = 65473),
                        !.progressive = (fileMarker = 65474),
                        !.precision = At(data, offset + 2),
                        !.scanLines = readUint16(data, offset + 3),
                        !.samplesPerLine = readUint16(data, offset + 5)], LAMBDA frame :
        LET pixelsInFrame == frame.scanLines * frame.samplesPerLine
        IN  IF pixelsInFrame > maxResolutionInPixels(maxResolutionInMP)
            THEN [offset |-> offset + 7, frame |-> frame,
                  M |-> Throw(M, ResolutionExceeded), pushed |-> FALSE]
            ELSE Let(SOFComponents(data, offset + 8, 0, At(data, offset + 7), frame, M),
                     LAMBDA c :
                     IF c.M.err # NoError
                     THEN [offset |-> c.offset, frame |-> c.frame, M |-> c.M,
                           pushed |-> FALSE]
                     ELSE Let(prepareComponents(c.frame, c.M), LAMBDA r :
                              [offset |-> c.offset, frame |-> r.frame, M |-> r.M,
                               pushed |-> r.M.err = NoError])))

(***************************************************************************)
(* buildComponentData.                                                     *)
(***************************************************************************)
\* one pass of the inverse DCT over the 8 values q.  The pass over rows
\* rounds stage 4 and the rotation of stage 3 with (x + 128) >> 8 and takes
\* p[3] and p[5] << 4; the pass over columns rounds with (x + 2048) >> 12.
\* zrnd and zsh round the value that stands for a row or column whose AC
\* coefficients are all zero.
IDCT8(q, rnd, sh, up, zrnd, zsh) ==
    IF \A i \in 2..8 : q[i] = 0
    THEN [i \in 1..8 |-> Shr(dctSqrt2 * q[1] + zrnd, zsh)]
    ELSE LET \* stage 4
             a0 == Shr(dctSqrt2 * q[1] + rnd, sh)
             a1 == Shr(dctSqrt2 * q[5] + rnd, sh)
             a2 == q[3]
             a3 == q[7]
             a4 == Shr(dctSqrt1d2 * (q[2] - q[8]) + rnd, sh)
             a7 == Shr(dctSqrt1d2 * (q[2] + q[8]) + rnd, sh)
             a5 == q[4] * up
             a6 == q[6] * up
             \* stage 3
             b1 == Shr(a0 - a1 + 1, 1)
             b0 == Shr(a0 + a1 + 1, 1)
             b3 == Shr(a2 * dctSin6 + a3 * dctCos6 + rnd, sh)
             b2 == Shr(a2 * dctCos6 - a3 * dctSin6 + rnd, sh)
             b6 == Shr(a4 - a6 + 1, 1)
             b4 == Shr(a4 + a6 + 1, 1)
             b7 == Shr(a7 + a5 + 1, 1)
             b5 == Shr(a7 - a5 + 1, 1)
             \* stage 2
             c3 == Shr(b0 - b3 + 1, 1)
             c0 == Shr(b0 + b3 + 1, 1)
             c2 == Shr(b1 - b2 + 1, 1)
             c1 == Shr(b1 + b2 + 1, 1)
             c7 == Shr(b4 * dctSin3 + b7 * dctCos3 + 2048, 12)
             c4 == Shr(b4 * dctCos3 - b7 * dctSin3 + 2048, 12)
             c6 == Shr(b5 * dctSin1 + b6 * dctCos1 + 2048, 12)
             c5 == Shr(b5 * dctCos1 - b6 * dctSin1 + 2048, 12)
         IN  \* stage 1
             <<c0 + c7, c1 + c6, c2 + c5, c3 + c4, c3 - c4, c2 - c5, c1 - c6, c0 - c7>>

\* quantizeAndInverse(zz, dataOut, dataIn): the 64 samples written to dataOut
quantizeAndInverse(zz, qt) ==
    Let([i \in 0..7 |->
            IDCT8([k \in 1..8 |-> zz[8 * i + k] * qt[8 * i + k]], 128, 8, 16, 512, 10)],
        LAMBDA rows :
    Let([i \in 0..7 |->
            IDCT8([k \in 1..8 |-> rows[k - 1][i + 1]], 2048, 12, 1, 8192, 14)],
        LAMBDA columns :
        [i \in 1..64 |->
            clampTo8bit(128 + Shr(columns[(i - 1) % 8][((i - 1) \div 8) + 1] + 8, 4))]))

\* buildComponentData(component): the lines (a sequence of blocksPerColumn * 8
\* lines of blocksPerLine << 3 samples each) and the budget after
buildComponentData(component, M) ==
    LET blocksPerLine == component.blocksPerLine
        blocksPerColumn == component.blocksPerColumn
        samplesPerLine == blocksPerLine * 8
    IN  Let(Alloc(M, samplesPerLine * blocksPerColumn * 8), LAMBDA M1 :
        IF M1.err # NoError THEN [lines |-> <<>>, M |-> M1]
        ELSE IF blocksPerLine * blocksPerColumn > 0 /\ ~component.quantizationTable.defined
        THEN [lines |-> <<>>, M |-> Throw(M1, "TypeError")]
        ELSE Let([rc \in (0..(blocksPerColumn - 1)) \X (0..(blocksPerLine - 1)) |->
                     quantizeAndInverse(BlockOf(component, rc),
                                        component.quantizationTable.table)], LAMBDA r :
                 [lines |-> [y \in 1..(blocksPerColumn * 8) |->
                                [x \in 1..samplesPerLine |->
                                    r[<<(y - 1) \div 8, (x - 1) \div 8>>]
                                     [8 * ((y - 1) % 8) + ((x - 1) % 8) + 1]]],
                  M |-> M1]))

\* the loop of parse over frame.componentsOrder, from i on: this.components
RECURSIVE BuildComponents(_, _, _, _)
BuildComponents(frame, i, components, M) ==
    IF M.err # NoError \/ i > Len(frame.componentsOrder)
    THEN [components |-> components, M |-> M]
    ELSE LET component == frame.components[frame.componentsOrder[i]]
         IN  Let(buildComponentData(component, M), LAMBDA b :
                 BuildComponents(frame, i + 1,
                                 Append(components,
                                        [lines |-> b.lines,
                                         scaleX |-> <<component.h, frame.maxH>>,
                                         scaleY |-> <<component.v, frame.maxV>>]),
                                 b.M))

\* cp[j].quantizationTable = quantizationTables[cp[j].quantizationIdx]
WithQuantizationTables(frame, quantizationTables) ==
    [frame EXCEPT !.components =
        [id \in DOMAIN frame.components |->
            LET qId == frame.components[id].quantizationIdx
            IN  [frame.components[id] EXCEPT
                    !.quantizationIdx = Undef,
                    !.quantizationTable =
                        IF qId \in DOMAIN quantizationTables
                        THEN [defined |-> TRUE, table |-> quantizationTables[qId]]
                        ELSE [defined |-> FALSE, table |-> ZeroBlock]]]]

(***************************************************************************)
(* getData and copyToImageData, as decode calls them: with the width and   *)
(* the height of the decoder, so that the scaleX and scaleY of getData are *)
(* 1.  An array of samples is a sequence; a store to a Uint8Array drops    *)
(* the fraction of a value the code clamped, a store to the                *)
(* Uint8ClampedArray of the image rounds it.                               *)
(***************************************************************************)
UnsupportedColorMode == "Unsupported color mode"
UnsupportedColorMode4 == "Unsupported color mode (4 components)"

\* componentLine[0 | (x * component.scaleX * scaleX)] of the line
\* component.lines[0 | (y * component.scaleY * scaleY)]; the products are
\* exact for the sampling factors 1, 2 and 4
SampleAt(component, x, y) ==
    LET line == component.lines[((y * component.scaleY[1]) \div component.scaleY[2]) + 1]
    IN  ToInt(At(line, (x * component.scaleX[1]) \div component.scaleX[2]))

\* the byte stored for clampTo8bit(Y + 1.402 * (Cr - 128))
TransformR(Y, Cr) == clampTo8bit((1000 * Y + 1402 * (Cr - 128)) \div 1000)

\* the byte stored for
\* clampTo8bit(Y - 0.3441363 * (Cb - 128) - 0.71413636 * (Cr - 128)):
\* Y - ceil(t) for t = (34413630 * cb + 71413636 * cr) / 10^8, the numerator
\* split so that no product exceeds 31 bits
TransformG(Y, Cb, Cr) ==
    LET hi == 3441 * (Cb - 128) + 7141 * (Cr - 128)
        lo == 3630 * (Cb - 128) + 3636 * (Cr - 128)
        t == (hi \div 10000) + CeilDiv(10000 * (hi % 10000) + lo, 100000000)
    IN  clampTo8bit(Y - t)

\* the byte stored for clampTo8bit(Y + 1.772 * (Cb - 128))
TransformB(Y, Cb) == clampTo8bit((1000 * Y + 1772 * (Cb - 128)) \div 1000)

\* the local colorTransform of getData for 3 components (default TRUE) and
\* for 4 (default FALSE): a transform code of the Adobe segment other than 0
\* is looked at first, the option only if there is none
colorTransformOf(default, adobe, optColorTransform) ==
    IF adobe.defined /\ adobe.transformCode # Undef /\ adobe.transformCode # 0 THEN TRUE
    ELSE IF optColorTransform # "undefined" THEN optColorTransform = "true"
    ELSE default

\* the bytes getData stores for the pixel (x, y)
PixelData(components, colorTransform, x, y) ==
    Let([i \in 1..Len(components) |-> SampleAt(components[i], x, y)], LAMBDA s :
        CASE Len(components) \in {1, 2} -> s
          [] Len(components) = 3 ->
                IF colorTransform
                THEN <<TransformR(s[1], s[3]), TransformG(s[1], s[2], s[3]),
                       TransformB(s[1], s[2])>>
                ELSE s
          [] OTHER ->
                IF colorTransform
                THEN <<TransformR(s[1], s[3]), TransformG(s[1], s[2], s[3]),
                       TransformB(s[1], s[2]), 255 - s[4]>>
                ELSE <<255 - (255 - s[1]), 255 - (255 - s[2]), 255 - (255 - s[3]),
                       255 - s[4]>>)

\* getData(width, height): the array, the local colorTransform ("unset" where
\* the code does not assign it) and the budget after
getData(components, width, height, adobe, optColorTransform, M) ==
    LET n == Len(components)
        dataLength == width * height * n
        colorTransform == colorTransformOf(n = 3, adobe, optColorTransform)
    IN  Let(Alloc(M, dataLength), LAMBDA M1 :
        IF M1.err # NoError THEN [data |-> <<>>, colorTransform |-> "unset", M |-> M1]
        ELSE IF n = 4 /\ ~adobe.defined
        THEN [data |-> <<>>, colorTransform |-> "unset",
              M |-> Throw(M1, UnsupportedColorMode4)]
        ELSE IF n \notin 1..4
        THEN [data |-> <<>>, colorTransform |-> "unset",
              M |-> Throw(M1, UnsupportedColorMode)]
        ELSE [data |-> [k \in 1..dataLength |->
                           PixelData(components, colorTransform,
                                     ((k - 1) \div n) % width, (k - 1) \div (n * width))
                            [((k - 1) % n) + 1]],
              colorTransform |-> IF n \in {3, 4}
                                 THEN IF colorTransform THEN "true" ELSE "false"
                                 ELSE "unset",
              M |-> M1])

\* the byte the image takes for 255 - clampTo8bit(C * (1 - K / 255) + K):
\* the nearest integer, which is never a tie
CMYKToRGB(C, K) ==
    (2 * (65025 - (C * (255 - K) + 255 * K)) + 255) \div 510

\* the bytes copyToImageData writes, in the order it writes them; data is
\* what its own call of getData returned
CopiedBytes(n, data, width, height, formatAsRGBA) ==
    LET per == IF formatAsRGBA THEN 4 ELSE 3
    IN  [j \in 1..(width * height * per) |->
            LET pixel == (j - 1) \div per
                c == (j - 1) % per
            IN  IF c = 3 THEN 255
                ELSE IF n = 1 THEN data[pixel + 1]
                ELSE IF n = 3 THEN data[3 * pixel + c + 1]
                ELSE CMYKToRGB(data[4 * pixel + c + 1], data[4 * pixel + 4])]

\* copyToImageData(image, formatAsRGBA): image.data after the call.  A write
\* at an index image.data does not have is dropped; a byte not written keeps
\* what it held.
copyToImageData(components, img, adobe, optColorTransform, formatAsRGBA, M) ==
    Let(getData(components, img.width, img.height, adobe, optColorTransform, M), LAMBDA g :
        IF g.M.err # NoError THEN [data |-> img.data, M |-> g.M]
        ELSE IF Len(components) \notin {1, 3, 4}
        THEN [data |-> img.data, M |-> Throw(g.M, UnsupportedColorMode)]
        ELSE Let(CopiedBytes(Len(components), g.data, img.width, img.height, formatAsRGBA),
                 LAMBDA copied :
                 [data |-> [j \in 1..Len(img.data) |->
                               IF j <= Len(copied) THEN copied[j] ELSE img.data[j]],
                  M |-> g.M]))

(***************************************************************************)
(* The inputs of decode: byte streams put together segment by segment,     *)
(* each segment laid out as the handler of its marker reads it.            *)
(***************************************************************************)
Word(n) == <<n \div 256, n % 256>>

\* a marker and its segment: 0xFF, the code, the 16-bit length (which counts
\* itself) and the payload
Segment(code, payload) == <<255, code>> \o Word(Len(payload) + 2) \o payload

SOI == <<255, 216>>
EOI == <<255, 217>>

\* APP14 'Adobe': version 100, flags0, flags1 and the transform code
AdobeSegment(transformCode) ==
    Segment(238, <<65, 100, 111, 98, 101, 0, 100, 0, 0, 0, 0, transformCode>>)

\* DQT: the 8-bit table 0, every entry 16
DQTSegment == Segment(219, <<0>> \o [i \in 1..64 |-> 16])

\* DHT: table id 0 of the class (0 = DC, 1 = AC) with the codes 0 and 10 for
\* the symbols 0 and 1 (DC: categories 0 and 1; AC: end of block, and one
\* coefficient of one bit after no zero)
DHTSegment(class) ==
    Segment(196, <<16 * class>> \o <<1, 1>> \o [i \in 1..14 |-> 0] \o <<0, 1>>)

\* the concatenation of f[1], ..., f[n]
RECURSIVE Concat(_, _)
Concat(f, n) == IF n = 0 THEN <<>> ELSE Concat(f, n - 1) \o f[n]

\* the sampling factors of component i: hv for the first, 1x1 for the others
SamplingOf(hv, i) == IF i = 1 THEN hv ELSE 17

\* SOF0 or SOF2 (code 192 or 194): precision 8, n components with the ids 1..n
\* and the quantization table 0
SOFSegment(code, width, height, n, hv) ==
    Segment(code, <<8>> \o Word(height) \o Word(width) \o <<n>>
                       \o Concat([i \in 1..n |-> <<i, SamplingOf(hv, i), 0>>], n))

DRISegment(interval) == Segment(221, Word(interval))

\* the header of a scan of all n components, tables 0/0, Ss = 0, Se = 63,
\* Ah = Al = 0: "standard" with the 16-bit length after the marker, "bare"
\* without it
SOSHeader(form, n) ==
    LET fields == <<n>> \o Concat([i \in 1..n |-> <<i, 0>>], n) \o <<0, 63, 0>>
    IN  IF form = "standard" THEN Segment(218, fields) ELSE <<255, 218>> \o fields

\* the bits of a block whose DC difference is diff (0, 1 or -1) and whose
\* AC coefficients are all zero, in the codes of DHTSegment
BlockBits(diff) ==
    IF diff = 0 THEN <<0, 0>>
    ELSE IF diff = 1 THEN <<1, 0, 1, 0>>
    ELSE <<1, 0, 0, 0>>

\* the bits packed into bytes, the last byte filled with 1s
RECURSIVE PackBits(_)
PackBits(bits) ==
    IF Len(bits) = 0 THEN <<>>
    ELSE IF Len(bits) < 8 THEN PackBits(bits \o [i \in 1..(8 - Len(bits)) |-> 1])
    ELSE <<128 * bits[1] + 64 * bits[2] + 32 * bits[3] + 16 * bits[4]
           + 8 * bits[5] + 4 * bits[6] + 2 * bits[7] + bits[8]>>
         \o PackBits(SubSeq(bits, 9, Len(bits)))

\* the DC difference of the b-th block of an interval
DiffOf(pattern, b) == pattern[((b - 1) % Len(pattern)) + 1]

\* the entropy-coded data of mcus MCUs of blocksPerMcu blocks: without
\* restarts (interval = 0) one run of bits, with restarts one run per
\* interval MCUs and RSTm, m = 0, 1, ... modulo 8, between the runs
RECURSIVE EntropyData(_, _, _, _, _)
EntropyData(mcus, blocksPerMcu, interval, pattern, m) ==
    LET count == IF interval = 0 \/ interval > mcus THEN mcus ELSE interval
        run == PackBits(Concat([b \in 1..(count * blocksPerMcu) |->
                                   BlockBits(DiffOf(pattern, b))],
                               count * blocksPerMcu))
    IN  IF mcus = 0 THEN <<>>
        ELSE IF count = mcus THEN run
        ELSE run \o <<255, 208 + (m % 8)>>
                 \o EntropyData(mcus - count, blocksPerMcu, interval, pattern, m + 1)

\* a baseline JPEG: p names the width, height, number of components n,
\* sampling factors hv of the first component, the transform code of the
\* Adobe segment (Undef: no such segment), the restart interval (0: no DRI),
\* the form of the SOS header, the pattern of DC differences and the bytes
\* extra put between SOI and the first segment; coded = FALSE leaves the
\* entropy-coded data out
Jpeg(p) ==
    LET maxH == p.hv \div 16
        maxV == p.hv % 16
        mcus == CeilDiv(p.width, 8 * maxH) * CeilDiv(p.height, 8 * maxV)
        blocksPerMcu == IF p.n = 1 THEN 1 ELSE maxH * maxV + (p.n - 1)
        scanMcus == IF p.n = 1 THEN CeilDiv(p.width, 8) * CeilDiv(p.height, 8) ELSE mcus
    IN  SOI \o p.extra
            \o (IF p.adobe = Undef THEN <<>> ELSE AdobeSegment(p.adobe))
            \o DQTSegment
            \o SOFSegment(192, p.width, p.height, p.n, p.hv)
            \o DHTSegment(0) \o DHTSegment(1)
            \o (IF p.dri = 0 THEN <<>> ELSE DRISegment(p.dri))
            \o SOSHeader(p.sos, p.n)
            \o (IF p.coded THEN EntropyData(scanMcus, blocksPerMcu, p.dri, p.pattern, 0)
                ELSE <<>>)
            \o EOI

(***************************************************************************)
(* decode(jpegData, userOpts), step by step: the entry of decode up to the *)
(* first marker (DecodeCall), one step per marker parse meets, the rest of *)
(* parse after EOI (ParseEnd), and the two steps of decode after parse.    *)
(***************************************************************************)
defaultOpts ==
    [colorTransform |-> "undefined", useTArray |-> FALSE, formatAsRGBA |-> TRUE,
     tolerantDecoding |-> TRUE, maxResolutionInMP |-> 100, maxMemoryUsageInMB |-> 512]

\* { ...defaultOpts, ...userOpts }
MergeOpts(userOpts) ==
    [k \in DOMAIN defaultOpts |->
        IF k \in DOMAIN userOpts THEN userOpts[k] ELSE defaultOpts[k]]

\* image.comments when it is undefined
NoComments == [defined |-> FALSE, list |-> <<>>]

\* comments: decoder.comments, the empty list included
commentsOf_AlwaysList(comments) == [defined |-> TRUE, list |-> comments]

\* decoder.comments.length > 0 ? decoder.comments : undefined
commentsOf(comments) ==
    IF Len(comments) > 0 THEN [defined |-> TRUE, list |-> comments] ELSE NoComments

NoImage ==
    [defined |-> FALSE, width |-> Undef, height |-> Undef, data |-> <<>>,
     exifBuffer |-> NoExif, comments |-> NoComments]

\* no call of decodeScan yet.  Of a call the log keeps the offset of the byte
\* after the SOS marker (at) and the arguments: the offset of the first byte
\* handed to the bit reader, the components with the tables bound to them,
\* and the five numbers.
NoScan ==
    [calls |-> 0, at |-> Undef, offset |-> Undef, components |-> <<>>, resetInterval |-> Undef,
     spectralStart |-> Undef, spectralEnd |-> Undef, successivePrev |-> Undef,
     successive |-> Undef]

NoRequests == [granted |-> 0, failed |-> 0]

\* no function was called on its own yet
NoUnit == [fn |-> "none"]

\* jpegData that is not an output of encode
NoSource == [encoded |-> FALSE]

\* the log of a call of decode at its entry: source is what jpegData was
\* encoded from, sofs the number of SOF cases entered, sofAt the offset of the
\* byte after the marker of the last of them, and sofGranted what the
\* requests granted before it added up to
NewCallLog(source) ==
    [source |-> source, sofs |-> 0, sofAt |-> Undef, sofGranted |-> 0]

\* a new JpegImage with the options opts
NewDecoder(opts) ==
    [opts |-> opts, width |-> Undef, height |-> Undef, jfif |-> NoJfif, adobe |-> NoAdobe,
     components |-> <<>>, comments |-> <<>>, exifBuffer |-> NoExif]

\* the locals of parse at its entry
NewParser ==
    [offset |-> 0, fileMarker |-> 0, jfif |-> NoJfif, adobe |-> NoAdobe,
     frame |-> NoFrame, frames |-> 0, resetInterval |-> Undef,
     quantizationTables |-> NoComponents, huffmanTablesDC |-> NoComponents,
     huffmanTablesAC |-> NoComponents, malformedDataOffset |-> -1, reads |-> 0]

\* no call of decode yet
DecoderIdle ==
    /\ pc = "idle"
    /\ arr = <<>>
    /\ decoder = NewDecoder(defaultOpts)
    /\ parser = NewParser
    /\ image = NoImage
    /\ err = NoError
    /\ getDataLog = "unset"
    /\ scanLog = NoScan
    /\ requestLog = NoRequests
    /\ prevErr = "no call"
    /\ callLog = NewCallLog(NoSource)

\* the budget as a handler finds it
Budget ==
    [total |-> totalBytesAllocated, max |-> maxMemoryUsageBytes,
     granted |-> requestLog.granted, failed |-> 0, err |-> NoError]

\* the statics after a handler that ended with the budget M
SetBudget(M) ==
    /\ totalBytesAllocated' = M.total
    /\ maxMemoryUsageBytes' = M.max
    /\ requestLog' = [granted |-> M.granted, failed |-> M.failed]

\* the end of a case of the switch of parse, the locals of parse being P and
\* the error thrown e: fileMarker = readUint16() if nothing was thrown, the
\* end of decode if something was
EndCase(P, e) ==
    /\ P.reads < MaxReads
    /\ err' = e
    /\ pc' = IF e = NoError THEN "parse" ELSE "done"
    /\ parser' = IF e = NoError
                 THEN [P EXCEPT !.fileMarker = readUint16(arr, P.offset),
                                !.offset = P.offset + 2,
                                !.reads = P.reads + 1]
                 ELSE P

\* the loop over the selectorsCount selectors of case SOS, from selector i
\* on: r holds the frame, the components pushed so far (their ids and the
\* tables of their selectors) and the error thrown
RECURSIVE SOSSelectors(_, _, _, _, _, _)
SOSSelectors(input, at, i, selectorsCount, P, r) ==
    IF r.err # NoError \/ i >= selectorsCount THEN [r EXCEPT !.offset = at]
    ELSE LET id == At(input, at)
             tableSpec == ToInt(At(input, at + 1))
         IN  IF ~r.frame.defined \/ id \notin DOMAIN r.frame.components
             THEN [r EXCEPT !.offset = at + 1, !.err = "TypeError"]
             ELSE SOSSelectors(
                      input, at + 2, i + 1, selectorsCount, P,
                      [r EXCEPT
                          !.frame.components[id].huffmanTableDC =
                              TableAt(P.huffmanTablesDC, tableSpec \div 16),
                          !.frame.components[id].huffmanTableAC =
                              TableAt(P.huffmanTablesAC, tableSpec % 16),
                          !.components = Append(r.components,
                                                [id |-> id, dc |-> tableSpec \div 16,
                                                 ac |-> tableSpec % 16])])

\* case SOS for the locals P of parse: the offset after the scan, the frame,
\* the arguments decodeScan was called with (called = FALSE if the case threw
\* before the call) and the error thrown.  The 16-bit length of the segment
\* is not read: selectorsCount is the byte after the marker.  The
\* resetInterval handed on is the constant 0 declared in the case, not the
\* variable case DRI assigned.
SOS(input, P, tolerantDecoding) ==
    Let(SOSSelectors(input, P.offset + 1, 0, At(input, P.offset), P,
                     [frame |-> P.frame, components |-> <<>>, err |-> NoError,
                      offset |-> P.offset + 1]), LAMBDA sel :
    Let(ToInt(At(input, sel.offset + 2)), LAMBDA successiveApproximation :
    Let([components |-> [i \in 1..Len(sel.components) |-> sel.components[i].id],
         resetInterval |-> 0,
         spectralStart |-> At(input, sel.offset),
         spectralEnd |-> At(input, sel.offset + 1),
         successivePrev |-> successiveApproximation \div 16,
         successive |-> successiveApproximation % 16,
         progressive |-> sel.frame.progressive,
         tolerantDecoding |-> tolerantDecoding,
         mcusPerLine |-> sel.frame.mcusPerLine], LAMBDA sc :
    Let([at |-> P.offset, offset |-> sel.offset + 3, components |-> sel.components,
         resetInterval |-> sc.resetInterval,
         spectralStart |-> sc.spectralStart, spectralEnd |-> sc.spectralEnd,
         successivePrev |-> sc.successivePrev, successive |-> sc.successive], LAMBDA args :
        IF sel.err # NoError
        THEN [offset |-> sel.offset, frame |-> sel.frame, called |-> FALSE,
              args |-> args, err |-> sel.err]
        ELSE IF ~sel.frame.defined
        THEN [offset |-> sel.offset + 3, frame |-> sel.frame, called |-> TRUE,
              args |-> args, err |-> "TypeError"]
        ELSE Let(decodeScan(input, sel.offset + 3, sel.frame, sc), LAMBDA S :
                 [offset |-> S.offset,
                  frame |-> [sel.frame EXCEPT !.components = S.comps],
                  called |-> TRUE, args |-> args, err |-> S.err])))))

(***************************************************************************)
(* JPEGEncoder and the exported encode function (src/unnamed/part_003).    *)
(* An encoder is the record of its fields byteout, bytenew, bytepos,       *)
(* currentQuality, YTable and UVTable; the Huffman tables, category and    *)
(* bitcode are the same for every encoder.  A string is the sequence of    *)
(* its char codes.  The images encoded are of one colour: for them the     *)
(* floating-point DCT is exact.                                            *)
(***************************************************************************)
ZigZag ==
    <<0, 1, 5, 6, 14, 15, 27, 28, 2, 4, 7, 13, 16, 26, 29, 42, 3, 8, 12, 17, 25, 30,
     41, 43, 9, 11, 18, 24, 31, 40, 44, 53, 10, 19, 23, 32, 39, 45, 52, 54, 20, 22,
     33, 38, 46, 51, 55, 60, 21, 34, 37, 47, 50, 56, 59, 61, 35, 36, 48, 49, 57, 58,
     62, 63>>

std_dc_luminance_nrcodes ==
    <<0, 0, 1, 5, 1, 1, 1, 1, 1, 1, 0, 0, 0, 0, 0, 0, 0>>

std_dc_luminance_values ==
    <<0, 1, 2, 3, 4, 5, 6, 7, 8, 9, 10, 11>>

std_ac_luminance_nrcodes ==
    <<0, 0, 2, 1, 3, 3, 2, 4, 3, 5, 5, 4, 4, 0, 0, 1, 125>>

std_ac_luminance_values ==
    <<1, 2, 3, 0, 4, 17, 5, 18, 33, 49, 65, 6, 19, 81, 97, 7, 34, 113, 20, 50, 129,
     145, 161, 8, 35, 66, 177, 193, 21, 82, 209, 240, 36, 51, 98, 114, 130, 9, 10, 22,
     23, 24, 25, 26, 37, 38, 39, 40, 41, 42, 52, 53, 54, 55, 56, 57, 58, 67, 68, 69,
     70, 71, 72, 73, 74, 83, 84, 85, 86, 87, 88, 89, 90, 99, 100, 101, 102, 103, 104,
     105, 106, 115, 116, 117, 118, 119, 120, 121, 122, 131, 132, 133, 134, 135, 136,
     137, 138, 146, 147, 148, 149, 150, 151, 152, 153, 154, 162, 163, 164, 165, 166,
     167, 168, 169, 170, 178, 179, 180, 181, 182, 183, 184, 185, 186, 194, 195, 196,
     197, 198, 199, 200, 201, 202, 210, 211, 212, 213, 214, 215, 216, 217, 218, 225,
     226, 227, 228, 229, 230, 231, 232, 233, 234, 241, 242, 243, 244, 245, 246, 247,
     248, 249, 250>>

std_dc_chrominance_nrcodes ==
    <<0, 0, 3, 1, 1, 1, 1, 1, 1, 1, 1, 1, 0, 0, 0, 0, 0>>

std_dc_chrominance_values ==
    <<0, 1, 2, 3, 4, 5, 6, 7, 8, 9, 10, 11>>

std_ac_chrominance_nrcodes ==
    <<0, 0, 2, 1, 2, 4, 4, 3, 4, 7, 5, 4, 4, 0, 1, 2, 119>>

std_ac_chrominance_values ==
    <<0, 1, 2, 3, 17, 4, 5, 33, 49, 6, 18, 65, 81, 7, 97, 113, 19, 34, 50, 129, 8, 20,
     66, 145, 161, 177, 193, 9, 35, 51, 82, 240, 21, 98, 114, 209, 10, 22, 36, 52,
     225, 37, 241, 23, 24, 25, 26, 38, 39, 40, 41, 42, 53, 54, 55, 56, 57, 58, 67, 68,
     69, 70, 71, 72, 73, 74, 83, 84, 85, 86, 87, 88, 89, 90, 99, 100, 101, 102, 103,
     104, 105, 106, 115, 116, 117, 118, 119, 120, 121, 122, 130, 131, 132, 133, 134,
     135, 136, 137, 138, 146, 147, 148, 149, 150, 151, 152, 153, 154, 162, 163, 164,
     165, 166, 167, 168, 169, 170, 178, 179, 180, 181, 182, 183, 184, 185, 186, 194,
     195, 196, 197, 198, 199, 200, 201, 202, 210, 211, 212, 213, 214, 215, 216, 217,
     218, 226, 227, 228, 229, 230, 231, 232, 233, 234, 242, 243, 244, 245, 246, 247,
     248, 249, 250>>

YQT ==
    <<16, 11, 10, 16, 24, 40, 51, 61, 12, 12, 14, 19, 26, 58, 60, 55, 14, 13, 16, 24,
     40, 57, 69, 56, 14, 17, 22, 29, 51, 87, 80, 62, 18, 22, 37, 56, 68, 109, 103, 77,
     24, 35, 55, 64, 81, 104, 113, 92, 49, 64, 78, 87, 103, 121, 120, 101, 72, 92, 95,
     98, 112, 100, 103, 99>>

UVQT ==
    <<17, 18, 24, 47, 99, 99, 99, 99, 18, 21, 26, 66, 99, 99, 99, 99, 24, 26, 56, 99,
     99, 99, 99, 99, 47, 66, 99, 99, 99, 99, 99, 99, 99, 99, 99, 99, 99, 99, 99, 99,
     99, 99, 99, 99, 99, 99, 99, 99, 99, 99, 99, 99, 99, 99, 99, 99, 99, 99, 99, 99,
     99, 99, 99, 99>>

\* the z with ZigZag[z] = k
EncZigZagIndex(k) == CHOOSE z \in 0..63 : ZigZag[z + 1] = k

\* the fields of a JPEGEncoder before its constructor runs; scanAt is the
\* length of byteout when the last scan began, which the code does not keep
BlankEncoder ==
    [byteout |-> <<>>, bytenew |-> 0, bytepos |-> 7, currentQuality |-> Undef,
     YTable |-> [i \in 1..64 |-> Undef], UVTable |-> [i \in 1..64 |-> Undef],
     scanAt |-> Undef, err |-> NoError]

\* the table initQuantTables(sf) derives from QT: the entry ZigZag[i] is
\* Math.max(1, Math.min(255, Math.floor((QT[i] * sf + 50) / 100)))
QuantTable(QT, sf) ==
    [k \in 1..64 |-> Max(1, Min(255, (QT[EncZigZagIndex(k - 1) + 1] * sf + 50) \div 100))]

\* initQuantTables(sf): YTable and UVTable (fdtbl_Y and fdtbl_UV are
\* 1 / (8 * aasf[row] * aasf[col]) times their inverses)
initQuantTables(E, sf) ==
    [E EXCEPT !.YTable = QuantTable(YQT, sf), !.UVTable = QuantTable(UVQT, sf)]

\* setQuality(quality)
setQuality(E, quality) ==
    LET q == IF quality <= 0 THEN 1 ELSE IF quality > 100 THEN 100 ELSE quality
        sf == IF q < 50 THEN 5000 \div q ELSE 200 - q * 2
    IN  IF E.currentQuality = q THEN E
        ELSE [initQuantTables(E, sf) EXCEPT !.currentQuality = q]

\* if (quality): undefined and 0 are falsy
Truthy(quality) == quality # Undef /\ quality # 0

\* computeHuffmanTbl: the number of codes shorter than k bits
RECURSIVE CodesBefore(_, _)
CodesBefore(nrcodes, k) ==
    IF k <= 1 THEN 0 ELSE CodesBefore(nrcodes, k - 1) + nrcodes[k]

\* computeHuffmanTbl: codevalue when the loop over the codes of k bits begins
RECURSIVE FirstCode(_, _)
FirstCode(nrcodes, k) ==
    IF k <= 1 THEN 0 ELSE (FirstCode(nrcodes, k - 1) + nrcodes[k]) * 2

\* computeHuffmanTbl(nrcodes, std_table): HT maps a symbol to <<code, length>>,
\* the code of position pos_in_table being codevalue at that position; of two
\* positions with one symbol the later one is kept
computeHuffmanTbl(nrcodes, std_table) ==
    LET count == CodesBefore(nrcodes, 17)
        Position(sym) == CHOOSE p \in 0..(count - 1) :
                             /\ std_table[p + 1] = sym
                             /\ \A m \in (p + 1)..(count - 1) : std_table[m + 1] # sym
        LengthAt(p) == CHOOSE k \in 1..16 :
                           CodesBefore(nrcodes, k) <= p /\ p < CodesBefore(nrcodes, k + 1)
    IN  [sym \in { std_table[p + 1] : p \in 0..(count - 1) } |->
            <<FirstCode(nrcodes, LengthAt(Position(sym)))
                  + (Position(sym) - CodesBefore(nrcodes, LengthAt(Position(sym)))),
              LengthAt(Position(sym))>>]

\* initHuffmanTbl()
YDC_HT == computeHuffmanTbl(std_dc_luminance_nrcodes, std_dc_luminance_values)
UVDC_HT == computeHuffmanTbl(std_dc_chrominance_nrcodes, std_dc_chrominance_values)
YAC_HT == computeHuffmanTbl(std_ac_luminance_nrcodes, std_ac_luminance_values)
UVAC_HT == computeHuffmanTbl(std_ac_chrominance_nrcodes, std_ac_chrominance_values)

Abs(n) == IF n < 0 THEN -n ELSE n

\* initCategoryNumber(): category[pos] and bitcode[pos] for pos = 32767 + nr,
\* nr # 0
category(pos) ==
    CHOOSE cat \in 1..15 :
        2 ^ (cat - 1) <= Abs(pos - 32767) /\ Abs(pos - 32767) < 2 ^ cat

\* a negative number written as its magnitude
bitcode_Magnitude(pos) == <<Abs(pos - 32767), category(pos)>>

bitcode(pos) ==
    <<IF pos > 32767 THEN pos - 32767 ELSE 2 ^ category(pos) - 1 + (pos - 32767),
      category(pos)>>

\* writeByte(value)
writeByte(E, value) == [E EXCEPT !.byteout = Append(@, value)]

\* the two bytes writeWord(value) writes
WordBytes(value) == <<(value \div 256) % 256, value % 256>>

\* writeWord(value)
writeWord(E, value) == [E EXCEPT !.byteout = @ \o WordBytes(value)]

\* writeByte for each of bytes from the i-th on, in order
WriteBytes(E, bytes, i) ==
    [E EXCEPT !.byteout = @ \o SubSeq(bytes, i, Len(bytes))]

\* a bit writer that does not stuff a 0x00 after a byte 0xFF
RECURSIVE WriteBitsLoop_NoStuffing(_, _, _)
WriteBitsLoop_NoStuffing(E, value, posval) ==
    IF posval < 0 THEN E
    ELSE LET bit == (value \div (2 ^ posval)) % 2
             bytenew == IF bit = 1 /\ (E.bytenew \div (2 ^ E.bytepos)) % 2 = 0
                        THEN E.bytenew + 2 ^ E.bytepos ELSE E.bytenew
         IN  IF E.bytepos - 1 < 0
             THEN WriteBitsLoop_NoStuffing(
                      [E EXCEPT !.byteout = Append(@, bytenew),
                                !.bytepos = 7, !.bytenew = 0],
                      value, posval - 1)
             ELSE WriteBitsLoop_NoStuffing(
                      [E EXCEPT !.bytenew = bytenew, !.bytepos = E.bytepos - 1],
                      value, posval - 1)

\* the loop of writeBits: the bits posval..0 of value, the highest first
RECURSIVE WriteBitsLoop(_, _, _)
WriteBitsLoop(E, value, posval) ==
    IF posval < 0 THEN E
    ELSE LET bit == (value \div (2 ^ posval)) % 2
             bytenew == IF bit = 1 /\ (E.bytenew \div (2 ^ E.bytepos)) % 2 = 0
                        THEN E.bytenew + 2 ^ E.bytepos ELSE E.bytenew
         IN  IF E.bytepos - 1 < 0
             THEN WriteBitsLoop(
                      [E EXCEPT !.byteout = IF bytenew = 255 THEN @ \o <<255, 0>>
                                            ELSE Append(@, bytenew),
                                !.bytepos = 7, !.bytenew = 0],
                      value, posval - 1)
             ELSE WriteBitsLoop(
                      [E EXCEPT !.bytenew = bytenew, !.bytepos = E.bytepos - 1],
                      value, posval - 1)

\* writeBits(bs), bs = [value, length]
writeBits(E, bs) == WriteBitsLoop(E, bs[1], bs[2] - 1)

\* writeBits(HT[symbol]): a TypeError when HT has no code for symbol
WriteCode(E, HT, symbol) ==
    IF E.err # NoError THEN E
    ELSE IF symbol \in DOMAIN HT THEN writeBits(E, HT[symbol])
    ELSE [E EXCEPT !.err = "TypeError"]

\* (x > 0.0) ? ((x + 0.5) | 0) : ((x - 0.5) | 0) for x = n / d, d > 0
RoundHalfAway(n, d) ==
    IF n > 0 THEN (2 * n + d) \div (2 * d) ELSE -((d - 2 * n) \div (2 * d))

\* fDCTQuant(data, fdtbl) for a block data whose 64 samples are equal, fdtbl
\* being that of the table QTable: the DCT gives 64 * data[0] as coefficient
\* 0 and exactly 0 for the others, and fdtbl[0] is 1 / (8 * QTable[0])
fDCTQuant(CDU, QTable) ==
    [i \in 1..64 |-> IF i = 1 THEN RoundHalfAway(8 * CDU[1], QTable[1]) ELSE 0]

\* processDU: the number of M16zeroes codes written for a run
RECURSIVE WriteZeroRuns(_, _, _)
WriteZeroRuns(E, HTAC, lng) ==
    IF lng <= 0 THEN E ELSE WriteZeroRuns(WriteCode(E, HTAC, 240), HTAC, lng - 1)

\* processDU: while (i <= end0pos), DU[i] being DU[i + 1] here
RECURSIVE EncodeACs(_, _, _, _, _)
EncodeACs(E, DU, i, end0pos, HTAC) ==
    IF i > end0pos THEN E
    ELSE LET at == CHOOSE k \in i..end0pos :
                       DU[k + 1] # 0 /\ \A m \in i..(k - 1) : DU[m + 1] = 0
             nrzeroes == at - i
             pos == 32767 + DU[at + 1]
         IN  Let(WriteZeroRuns(E, HTAC, IF nrzeroes >= 16 THEN nrzeroes \div 16 ELSE 0),
                 LAMBDA E1 :
             Let(WriteCode(E1, HTAC, (nrzeroes % 16) * 16 + category(pos)), LAMBDA E2 :
             Let(IF E2.err # NoError THEN E2 ELSE writeBits(E2, bitcode(pos)), LAMBDA E3 :
                 EncodeACs(E3, DU, at + 1, end0pos, HTAC))))

\* processDU after the ZigZag reorder: the DC difference and the ACs of the
\* block DU are written; the result is the encoder and the new DC
EncodeDU(E, DU, DC, HTDC, HTAC) ==
    LET Diff == DU[1] - DC
        nonzero == { k \in 1..63 : DU[k + 1] # 0 }
        end0pos == IF nonzero = {} THEN 0 ELSE CHOOSE k \in nonzero : \A m \in nonzero : m <= k
    IN  Let(IF Diff = 0 THEN WriteCode(E, HTDC, 0)
            ELSE IF Abs(Diff) > 32767 THEN [E EXCEPT !.err = "TypeError"]
            ELSE Let(WriteCode(E, HTDC, category(32767 + Diff)), LAMBDA E0 :
                     IF E0.err # NoError THEN E0
                     ELSE writeBits(E0, bitcode(32767 + Diff))), LAMBDA E1 :
        IF E1.err # NoError THEN [E |-> E1, DC |-> DU[1]]
        ELSE IF end0pos = 0 THEN [E |-> WriteCode(E1, HTAC, 0), DC |-> DU[1]]
        ELSE Let(EncodeACs(E1, DU, 1, end0pos, HTAC), LAMBDA E2 :
                 [E |-> IF end0pos # 63 THEN WriteCode(E2, HTAC, 0) ELSE E2,
                  DC |-> DU[1]]))

\* processDU(CDU, fdtbl, DC, HTDC, HTAC)
processDU(E, CDU, QTable, DC, HTDC, HTAC) ==
    Let(fDCTQuant(CDU, QTable), LAMBDA DU_DCT :
        EncodeDU(E, [k \in 1..64 |-> DU_DCT[EncZigZagIndex(k - 1) + 1]], DC, HTDC, HTAC))

\* writeAPP0()
writeAPP0(E) ==
    WriteBytes(E, WordBytes(65504) \o WordBytes(16)
                    \o <<74, 70, 73, 70, 0, 1, 1, 0, 0, 1, 0, 1, 0, 0>>, 1)

\* writeCOM(comments): the bytes written for the comments from the i-th on; a
\* comment is [isString, chars], chars its char codes
RECURSIVE CommentBytes(_, _)
CommentBytes(list, i) ==
    IF i > Len(list) THEN <<>>
    ELSE IF ~list[i].isString THEN CommentBytes(list, i + 1)
    ELSE WordBytes(65534) \o WordBytes(Len(list[i].chars) + 2) \o list[i].chars
             \o CommentBytes(list, i + 1)

writeCOM(E, comments) ==
    IF ~comments.defined THEN E ELSE WriteBytes(E, CommentBytes(comments.list, 1), 1)

\* writeAPP1(exifBuffer)
writeAPP1(E, exifBuffer) ==
    IF ~exifBuffer.defined THEN E
    ELSE IF /\ At(exifBuffer.bytes, 0) = 69 /\ At(exifBuffer.bytes, 1) = 120
            /\ At(exifBuffer.bytes, 2) = 105 /\ At(exifBuffer.bytes, 3) = 102
    THEN WriteBytes(E, WordBytes(65505) \o WordBytes(Len(exifBuffer.bytes) + 2)
                         \o exifBuffer.bytes, 1)
    ELSE WriteBytes(E, WordBytes(65505) \o WordBytes(Len(exifBuffer.bytes) + 5 + 2)
                         \o <<69, 120, 105, 102, 0>> \o exifBuffer.bytes, 1)

\* writeDQT()
writeDQT(E) ==
    WriteBytes(E, WordBytes(65499) \o WordBytes(132) \o <<0>> \o E.YTable
                    \o <<1>> \o E.UVTable, 1)

\* writeSOF0(width, height)
writeSOF0(E, width, height) ==
    WriteBytes(E, WordBytes(65472) \o WordBytes(17) \o <<8>> \o WordBytes(height)
                    \o WordBytes(width) \o <<3, 1, 17, 0, 2, 17, 1, 3, 17, 1>>, 1)

\* writeDHT()
writeDHT(E) ==
    WriteBytes(E, WordBytes(65476) \o WordBytes(418)
                    \o <<0>> \o SubSeq(std_dc_luminance_nrcodes, 2, 17)
                    \o std_dc_luminance_values
                    \o <<16>> \o SubSeq(std_ac_luminance_nrcodes, 2, 17)
                    \o std_ac_luminance_values
                    \o <<1>> \o SubSeq(std_dc_chrominance_nrcodes, 2, 17)
                    \o std_dc_chrominance_values
                    \o <<17>> \o SubSeq(std_ac_chrominance_nrcodes, 2, 17)
                    \o std_ac_chrominance_values, 1)

\* writeSOS()
writeSOS(E) ==
    WriteBytes(E, WordBytes(65498) \o WordBytes(12)
                    \o <<3, 1, 0, 2, 17, 3, 17, 0, 63, 0>>, 1)

\* the samples read where they stand, without the padding at the bottom
\* and at the right
SampleIndex_NoPadding(width, height, x, y, pos) ==
    width * 4 * y + x + (pos \div 8) * width * 4 + (pos % 8) * 4

\* encode: the index p of the sample pos of the block at x, y (x counts
\* bytes), with the padding at the bottom and at the right
SampleIndex(width, height, x, y, pos) ==
    LET quadWidth == width * 4
        row == pos \div 8
        col == (pos % 8) * 4
        p0 == quadWidth * y + x + row * quadWidth + col
        p1 == IF y + row >= height THEN p0 - quadWidth * (y + 1 + row - height) ELSE p0
    IN  IF x + col >= quadWidth THEN p1 - ((x + col) - quadWidth + 4) ELSE p1

\* initRGBYUVTable and the sums of encode: YDU[pos], UDU[pos], VDU[pos]
RGBToY(r, g, b) == Shr(19595 * r + 38470 * g + (7471 * b + 32768), 16) - 128
RGBToU(r, g, b) == Shr(-11059 * r + -21709 * g + (32768 * b + 8421375), 16) - 128
RGBToV(r, g, b) == Shr((32768 * r + 8421375) + -27439 * g + -5329 * b, 16) - 128

\* encode: the blocks from the one at x, y on, in rows of blocks
RECURSIVE EncodeBlocks(_, _, _, _, _, _, _)
EncodeBlocks(E, img, x, y, DCY, DCU, DCV) ==
    IF E.err # NoError \/ y >= img.height THEN E
    ELSE IF x >= img.width * 4 THEN EncodeBlocks(E, img, 0, y + 8, DCY, DCU, DCV)
    ELSE LET R(pos) == At(img.data, SampleIndex(img.width, img.height, x, y, pos))
             G(pos) == At(img.data, SampleIndex(img.width, img.height, x, y, pos) + 1)
             B(pos) == At(img.data, SampleIndex(img.width, img.height, x, y, pos) + 2)
             YDU == [i \in 1..64 |-> RGBToY(R(i - 1), G(i - 1), B(i - 1))]
             UDU == [i \in 1..64 |-> RGBToU(R(i - 1), G(i - 1), B(i - 1))]
             VDU == [i \in 1..64 |-> RGBToV(R(i - 1), G(i - 1), B(i - 1))]
         IN  Let(processDU(E, YDU, E.YTable, DCY, YDC_HT, YAC_HT), LAMBDA ry :
             Let(processDU(ry.E, UDU, E.UVTable, DCU, UVDC_HT, UVAC_HT), LAMBDA ru :
             Let(processDU(ru.E, VDU, E.UVTable, DCV, UVDC_HT, UVAC_HT), LAMBDA rv :
                 EncodeBlocks(rv.E, img, x + 32, y, ry.DC, ru.DC, rv.DC))))

\* an encode that keeps the bytes byteout holds
EncodeHeaders_KeepBytes(E, img, quality) ==
    Let(IF Truthy(quality) THEN setQuality(E, quality) ELSE E, LAMBDA E0 :
    Let(writeSOS(writeDHT(writeSOF0(
            writeDQT(writeAPP1(writeCOM(writeAPP0(
                writeWord([E0 EXCEPT !.bytenew = 0, !.bytepos = 7,
                                     !.err = NoError], 65496)),
                img.comments), img.exifBuffer)),
            img.width, img.height))), LAMBDA E1 :
        [E1 EXCEPT !.bytenew = 0, !.bytepos = 7, !.scanAt = Len(E1.byteout)]))

\* encode(image, quality) up to its loop over the blocks: the quality, the
\* bit writer and the headers
EncodeHeaders(E, img, quality) ==
    Let(IF Truthy(quality) THEN setQuality(E, quality) ELSE E, LAMBDA E0 :
    Let(writeSOS(writeDHT(writeSOF0(
            writeDQT(writeAPP1(writeCOM(writeAPP0(
                writeWord([E0 EXCEPT !.byteout = <<>>, !.bytenew = 0, !.bytepos = 7,
                                     !.err = NoError], 65496)),
                img.comments), img.exifBuffer)),
            img.width, img.height))), LAMBDA E1 :
        [E1 EXCEPT !.bytenew = 0, !.bytepos = 7, !.scanAt = Len(E1.byteout)]))

\* encode after its loop: the bit alignment and EOI
EncodeEnd(E) ==
    IF E.err # NoError THEN E
    ELSE Let(IF E.bytepos >= 0
             THEN writeBits(E, <<2 ^ (E.bytepos + 1) - 1, E.bytepos + 1>>) ELSE E,
             LAMBDA E1 : writeWord(E1, 65497))

\* JPEGEncoder.encode(image, quality): the encoder after the call
encodeImage(E, img, quality) ==
    Let(EncodeHeaders(E, img, quality), LAMBDA E1 :
        EncodeEnd(EncodeBlocks(E1, img, 0, 0, 0, 0, 0)))

\* Buffer.from(this.byteout): each element modulo 256, as a sequence
ToBytes(byteout) == <<>> \o [i \in 1..Len(byteout) |-> byteout[i] % 256]

\* new JPEGEncoder(quality)
NewEncoder(quality) ==
    IF Truthy(quality) THEN setQuality(BlankEncoder, quality)
    ELSE setQuality(BlankEncoder, 50)

\* the exported encode(imgData, quality): the encoder it made and the data
\* it returns, the bytes of byteout
encode(imgData, quality) ==
    Let(IF quality = Undef THEN 50 ELSE quality, LAMBDA q :
    Let(encodeImage(NewEncoder(q), imgData, q), LAMBDA E :
        [E |-> E, data |-> ToBytes(E.byteout), width |-> imgData.width,
         height |-> imgData.height, err |-> E.err]))

(***************************************************************************)
(* The calls of encode the model makes: images of one colour, with and     *)
(* without comments and an EXIF buffer, at the qualities for which the     *)
(* quantisation of such an image is exact.                                 *)
(***************************************************************************)
MaxCalls == 2
MaxWrites == 3

\* a comment that is a string, and an element of comments that is not
Str(chars) == [isString |-> TRUE, chars |-> chars]
NotAString == [isString |-> FALSE, chars |-> <<>>]

\* a width x height RGBA image whose pixels are all rgb
Uniform(width, height, rgb) ==
    [width |-> width, height |-> height,
     data |-> [i \in 1..(4 * width * height) |-> IF i % 4 = 0 THEN 255 ELSE rgb[i % 4]],
     comments |-> NoComments, exifBuffer |-> NoExif]

Red == <<255, 0, 0>>

CommentLists ==
    { <<>>,
      <<Str(<<104, 105>>)>>,
      <<Str(<<>>)>>,
      <<Str(<<70, 105, 114, 115, 116>>), Str(<<83, 101, 99>>)>>,
      <<Str(<<0, 255>>), Str(<<>>), Str(<<255, 217, 65>>)>>,
      <<Str(<<97>>), NotAString, Str(<<98>>)>> }

ExifBuffers ==
    { <<>>,
      <<73, 73, 42, 0, 8>>,
      <<69, 120, 105>>,
      <<69, 120, 105, 102>>,
      <<69, 120, 105, 102, 0>>,
      <<69, 120, 105, 102, 0, 77, 77, 0, 42>>,
      <<69, 120, 105, 102, 9, 77, 77>> }

\* the images with metadata
MetadataImages ==
    { [Uniform(1, 1, Red) EXCEPT !.comments = [defined |-> TRUE, list |-> c]] :
          c \in CommentLists }
    \cup { [Uniform(1, 1, Red) EXCEPT !.exifBuffer = [defined |-> TRUE, bytes |-> e]] :
               e \in ExifBuffers }
    \cup { [Uniform(1, 1, Red) EXCEPT
               !.comments = [defined |-> TRUE, list |-> <<Str(<<104, 105>>)>>],
               !.exifBuffer = [defined |-> TRUE, bytes |-> <<77, 77, 0, 42>>]] }

\* the images without metadata: one block, two blocks in a row, two rows
PlainImages ==
    { Uniform(s[1], s[2], rgb) :
          s \in {<<1, 1>>, <<9, 1>>, <<1, 9>>},
          rgb \in {Red, <<0, 0, 0>>, <<255, 255, 255>>, <<18, 52, 86>>} }

Qualities == {Undef, -3, 0, 1, 25, 50, 75, 100, 150}

\* the calls encode(img, quality)
EncodeCalls ==
    { <<img, Undef>> : img \in MetadataImages \cup PlainImages }
    \cup { <<img, q>> : img \in {Uniform(1, 1, Red), Uniform(9, 1, <<18, 52, 86>>)},
                        q \in Qualities }

\* the arguments of writeBits and the blocks of processDU the scan is
\* driven with
BitStrings ==
    { <<0, 1>>, <<1, 1>>, <<127, 7>>, <<255, 8>>, <<65535, 16>> }

Block(dc, acs) == [k \in 1..64 |-> IF k = 1 THEN dc ELSE IF k \in DOMAIN acs THEN acs[k] ELSE 0]

Blocks ==
    { Block(0, <<>>), Block(-3, (2 :> 1)), Block(-1, (18 :> -1)), Block(0, (64 :> -1)),
      Block(2047, (36 :> 3) @@ (37 :> 1023)), Block(4096, <<>>), Block(1, (5 :> 1024)) }

\* the log of the last call: op is "encode" for the exported function,
\* "method" for JPEGEncoder.encode on the instance, "scan" for a driven scan;
\* out is what the call returned and prior the quality of the instance
\* before the call
NoCall ==
    [op |-> "none", img |-> Uniform(1, 1, Red), quality |-> Undef, out |-> <<>>,
     prior |-> Undef]

\* an encoder that was not constructed yet
NoEncoder ==
    [constructed |-> FALSE, obj |-> BlankEncoder, phase |-> "none", calls |-> 0,
     writes |-> 0, last |-> NoCall]

encoderFrame ==
    <<totalBytesAllocated, maxMemoryUsageBytes, budgetLog, decodeVars, unit>>

(***************************************************************************)
(* The calls of decode the model makes: Inputs is the set of the pairs     *)
(* (jpegData, userOpts).                                                   *)
(***************************************************************************)
\* a grayscale image of one pixel, its only block all zero
OnePixel ==
    [width |-> 1, height |-> 1, n |-> 1, hv |-> 17, adobe |-> Undef, dri |-> 0,
     sos |-> "standard", pattern |-> <<0>>, extra |-> <<>>, coded |-> TRUE]

NoOpts == [k \in {} |-> 0]

Widths == {1, 8 * (MaxBlocksPerLine - 1) + 1}

\* images of 1 to MaxComponents components, with and without an Adobe
\* segment, decoded under every colorTransform and formatAsRGBA
ColourInputs ==
    { [jpegData |-> Jpeg([OnePixel EXCEPT !.n = n, !.adobe = a, !.sos = form,
                                          !.width = w, !.pattern = <<1, 0, -1>>]),
       userOpts |-> [colorTransform |-> ct, formatAsRGBA |-> rgba]] :
        n \in 1..MaxComponents, a \in {Undef, 0, 1}, form \in {"standard", "bare"},
        w \in Widths, ct \in {"undefined", "true", "false"}, rgba \in BOOLEAN }

\* images whose scan carries a restart interval of 1 or 2 MCUs and the RSTm
\* markers at that interval
RestartInputs ==
    { [jpegData |-> Jpeg([OnePixel EXCEPT !.n = n, !.sos = form, !.dri = interval,
                                          !.width = 8 * MaxBlocksPerLine,
                                          !.height = 9, !.pattern = <<1, 0, -1>>]),
       userOpts |-> NoOpts] :
        n \in {1, 3}, form \in {"standard", "bare"}, interval \in {1, 2} }

\* images with a first component of 2x1 samples per MCU, and decodes that do
\* not tolerate a missing row of blocks
SamplingInputs ==
    { [jpegData |-> Jpeg([OnePixel EXCEPT !.n = 3, !.hv = 33, !.sos = form, !.width = w,
                                          !.pattern = <<1, 0, -1>>]),
       userOpts |-> [tolerantDecoding |-> t]] :
        form \in {"standard", "bare"}, w \in Widths, t \in BOOLEAN }

\* the input of the test 'limits memory exposure': an SOF1 of 1496 x 65535
\* samples whose two components have the sampling factors 13x10 and 15x15
SuperLargeJpeg ==
    <<255, 216, 255, 193, 241, 81, 5, 255, 255, 5, 216, 2, 255, 218, 127, 216,
      255, 196, 225, 222>>

\* decodes at the two ceilings: the resolution (1 MP, and the option 0) and
\* the memory (0 MB, 1 MB and the default)
LimitInputs ==
    { [jpegData |-> Jpeg([OnePixel EXCEPT !.width = 1001, !.height = 1000, !.coded = FALSE]),
       userOpts |-> [maxResolutionInMP |-> 1]],
      [jpegData |-> Jpeg([OnePixel EXCEPT !.width = 1000, !.height = 1000, !.coded = FALSE]),
       userOpts |-> [maxResolutionInMP |-> 1, maxMemoryUsageInMB |-> 1]],
      [jpegData |-> Jpeg([OnePixel EXCEPT !.width = 10001, !.height = 10000,
                                          !.coded = FALSE]),
       userOpts |-> [maxResolutionInMP |-> 0]],
      [jpegData |-> Jpeg(OnePixel), userOpts |-> [maxResolutionInMP |-> 0]],
      [jpegData |-> Jpeg(OnePixel), userOpts |-> [maxResolutionInMP |-> 1]],
      [jpegData |-> Jpeg(OnePixel), userOpts |-> [maxMemoryUsageInMB |-> 0]],
      [jpegData |-> Jpeg(OnePixel), userOpts |-> [maxMemoryUsageInMB |-> 1]],
      [jpegData |-> SuperLargeJpeg, userOpts |-> [maxResolutionInMP |-> 500]] }

\* streams that carry the other markers of the switch of parse, or none
MarkerInputs ==
    { [jpegData |-> Jpeg([OnePixel EXCEPT !.extra = e]), userOpts |-> NoOpts] :
        e \in { <<255>>, <<255, 0>>, <<1, 2>>,
                Segment(220, Word(1)),
                Segment(254, <<104, 105>>),
                Segment(224, <<74, 70, 73, 70, 0, 1, 1, 0, 0, 1, 0, 1, 0, 0>>),
                Segment(225, <<69, 120, 105, 102, 0, 0, 77, 77>>),
                SOFSegment(192, 1, 1, 1, 17) } }
    \cup { [jpegData |-> d, userOpts |-> NoOpts] : d \in { <<>>, <<0, 0>>, SOI \o EOI } }

\* an SOF0 of 8 x 8 samples whose components 1..Len(hvs) have the sampling
\* factors hvs
SOFOf(hvs) ==
    Segment(192, <<8>> \o Word(8) \o Word(8) \o <<Len(hvs)>>
                      \o Concat([i \in 1..Len(hvs) |-> <<i, hvs[i], 0>>], Len(hvs)))

\* streams whose SOF gives a component a sampling factor of 0, as the only
\* SOF or after a first SOF
ZeroSamplingInputs ==
    { [jpegData |-> SOI \o DQTSegment \o first \o SOFOf(hvs) \o DHTSegment(0)
                        \o DHTSegment(1) \o SOSHeader("standard", Len(hvs)) \o <<63>>
                        \o EOI,
       userOpts |-> NoOpts] :
        hvs \in { <<0>>, <<1>>, <<16>>, <<17, 0>>, <<17, 17, 16>>, <<33, 2, 17>> },
        first \in { <<>>, SOFOf(<<17>>) } }

\* an APP0 or APP1 (code 224 or 225) whose marker lacks its 0xFF: 0x00, the
\* code, the length and the payload
Malformed(code, payload) == <<0, code>> \o Word(Len(payload) + 2) \o payload

\* streams with one malformed APP0/APP1, with two of them and nothing, a
\* comment, or a table between the two, and with one whose length does not
\* lead to a 0xFF
MalformedInputs ==
    { [jpegData |-> Jpeg([OnePixel EXCEPT !.extra = e]), userOpts |-> NoOpts] :
        e \in { Malformed(225, <<1, 2>>),
                Malformed(224, <<>>),
                Malformed(225, <<1, 2>>) \o Malformed(224, <<>>),
                Malformed(224, <<7>>) \o Segment(254, <<104, 105>>)
                    \o Malformed(224, <<7>>),
                Malformed(225, <<>>) \o DQTSegment \o Segment(225, <<1>>)
                    \o Malformed(225, <<255, 255>>),
                Segment(254, <<255>>) \o Malformed(225, <<1>>),
                <<0, 225, 0, 9, 1>>,
                <<0, 224, 0, 2, 0, 224, 0, 2>> } }

\* the streams cut: a three-component image of two MCUs, with a restart
\* interval or without, in both forms of the SOS header, ending at EOI or
\* with a COM segment between the entropy-coded data and EOI
CutBases ==
    { [p |-> [OnePixel EXCEPT !.n = 3, !.width = 8 * MaxBlocksPerLine, !.sos = form,
                              !.dri = interval, !.pattern = <<1, 0, -1>>],
       trailer |-> t] :
        form \in {"standard", "bare"}, interval \in {0, 1},
        t \in {<<>>, Segment(254, <<104, 105>>)} }

\* the stream of the base b: Jpeg(b.p) with b.trailer put before its EOI
WithTrailer(b) ==
    SubSeq(Jpeg(b.p), 1, Len(Jpeg(b.p)) - 2) \o b.trailer \o EOI

\* the length of the stream of b.p up to the end of its SOS header
HeadLen(b) == Len(Jpeg([b.p EXCEPT !.coded = FALSE])) - 2

\* the streams cut off before their EOI: every prefix that keeps the SOS
\* header whole and loses at least the last byte of EOI
TruncatedStreams ==
    UNION { { SubSeq(WithTrailer(b), 1, k) : k \in HeadLen(b)..(Len(WithTrailer(b)) - 1) } :
            b \in CutBases }

TruncatedInputs ==
    { [jpegData |-> d, userOpts |-> [tolerantDecoding |-> t]] :
        d \in TruncatedStreams, t \in BOOLEAN }

\* the longest run of bytes tried after SOI, and the bytes it is made of:
\* 0, SOF0, SOS and 0xFF
MaxRun == 3
RunBytes == {0, 192, 218, 255}

\* streams that make the marker loop back up: a COM whose length is one too
\* long (it eats the 0xFF of the next marker), before a DQT, before a marker
\* without a case, and before a COM of length 0; fill bytes before a marker
\* and at the end of the data; and SOI followed by every run of up to MaxRun
\* of the bytes RunBytes
BackUpInputs ==
    { [jpegData |-> Jpeg([OnePixel EXCEPT !.extra = e]), userOpts |-> NoOpts] :
        e \in { <<255, 254, 0, 5, 104, 105>>,
                <<255, 254, 0, 5, 104, 105, 255, 200>>,
                <<255, 254, 0, 5, 104, 105, 255, 254, 0, 0>>,
                <<255, 254, 0, 5, 104, 105, 255, 254, 0, 3, 255>>,
                <<255, 255, 255>>,
                <<255, 255, 0, 255, 255>> } }
    \cup { [jpegData |-> SOI \o run, userOpts |-> NoOpts] :
             run \in UNION { [1..n -> RunBytes] : n \in 1..MaxRun } }

\* decode(encode(img).data) for the images with metadata: source keeps img
EncodedInputs ==
    { [jpegData |-> encode(img, Undef).data, userOpts |-> NoOpts,
       source |-> [encoded |-> TRUE, img |-> img]] : img \in MetadataImages }

\* the one-pixel image with its DQT segment after the scan, and with none
TableInputs ==
    { [jpegData |-> SOI \o SOFSegment(192, 1, 1, 1, 17) \o DHTSegment(0)
                        \o DHTSegment(1) \o SOSHeader("bare", 1)
                        \o EntropyData(1, 1, 0, <<1>>, 0) \o dqt \o EOI,
       userOpts |-> NoOpts] : dqt \in {DQTSegment, <<>>} }

\* payloads of APP1 segments: 'Exif\x00' and more, 'Exif' and no 0, 'http'
Exif12 == <<69, 120, 105, 102, 0, 1, 2>>
Exif3 == <<69, 120, 105, 102, 0, 0, 3>>
ExifOnly == <<69, 120, 105, 102, 0>>
ExifNoZero == <<69, 120, 105, 102, 1, 2>>
Http == <<104, 116, 116, 112, 0, 9>>

\* the one-pixel image after a sequence of APP1 segments; source.app1 holds
\* their payloads
ExifInputs ==
    { [jpegData |-> Jpeg([OnePixel EXCEPT
                             !.extra = Concat([i \in 1..Len(app1) |->
                                                  Segment(225, app1[i])], Len(app1))]),
       userOpts |-> NoOpts,
       source |-> [encoded |-> FALSE, app1 |-> app1]] :
        app1 \in { <<Exif12>>, <<Http>>, <<ExifNoZero>>, <<ExifOnly>>,
                   <<Exif12, Exif3>>, <<Exif3, Http>>, <<Http, Exif12, ExifNoZero>> } }

Inputs == ColourInputs \cup RestartInputs \cup SamplingInputs \cup LimitInputs
              \cup MarkerInputs \cup ZeroSamplingInputs \cup MalformedInputs
              \cup TruncatedInputs \cup BackUpInputs \cup EncodedInputs
              \cup TableInputs \cup ExifInputs

\* how a call of decode that ended with the error e is remembered
Outcome(e) ==
    IF e = NoError THEN "returned"
    ELSE IF e = MemoryLimitExceeded THEN MemoryLimitExceeded
    ELSE "threw"

\* decode(jpegData, userOpts) from its entry to the first marker after SOI
DecodeCall ==
    /\ pc \in {"idle", "done"}
    /\ \E input \in Inputs :
        LET opts == MergeOpts(input.userOpts)
            B == resetMaxMemoryUsage(opts.maxMemoryUsageInMB * 1024 * 1024)
            soi == readUint16(input.jpegData, 0)
        IN  /\ arr' = input.jpegData
            /\ callLog' = NewCallLog(IF "source" \in DOMAIN input
                                     THEN input.source ELSE NoSource)
            /\ decoder' = NewDecoder(opts)
            /\ totalBytesAllocated' = B.total
            /\ maxMemoryUsageBytes' = B.max
            /\ requestLog' = NoRequests
            /\ err' = IF soi # 65496 THEN "SOI not found" ELSE NoError
            /\ pc' = IF soi # 65496 THEN "done" ELSE "parse"
            /\ parser' = IF soi # 65496
                         THEN [NewParser EXCEPT !.offset = 2, !.fileMarker = soi,
                                                !.reads = 1]
                         ELSE [NewParser EXCEPT
                                  !.offset = 4, !.reads = 2,
                                  !.fileMarker = readUint16(input.jpegData, 2)]
    /\ image' = NoImage
    /\ getDataLog' = "unset"
    /\ scanLog' = NoScan
    /\ prevErr' = IF pc = "idle" THEN "no call" ELSE Outcome(err)
    /\ UNCHANGED <<budgetLog, enc, unit>>

\* case 0xFF00
ParseFF00 ==
    /\ pc = "parse"
    /\ parser.fileMarker = 65280
    /\ EndCase(parser, NoError)
    /\ UNCHANGED <<totalBytesAllocated, maxMemoryUsageBytes, budgetLog, arr, decoder, image,
                   getDataLog, scanLog, requestLog, prevErr, callLog, enc, unit>>

IsAPPnOrCOM(marker) == (marker >= 65504 /\ marker <= 65519) \/ marker = 65534

\* case APP0 .. APP15, COM
ParseAPPn ==
    /\ pc = "parse"
    /\ IsAPPnOrCOM(parser.fileMarker)
    /\ \E b \in {readDataBlock(arr, parser.offset)} :
       LET appData == b.array
       IN  /\ decoder' = [decoder EXCEPT
                             !.comments = IF parser.fileMarker = 65534
                                          THEN Append(decoder.comments, appData)
                                          ELSE decoder.comments,
                             !.exifBuffer = IF parser.fileMarker = 65505
                                            THEN exifBufferOf(appData, decoder.exifBuffer)
                                            ELSE decoder.exifBuffer]
           /\ EndCase([parser EXCEPT
                          !.offset = b.offset,
                          !.jfif = IF parser.fileMarker = 65504
                                   THEN jfifOf(appData, parser.jfif) ELSE parser.jfif,
                          !.adobe = IF parser.fileMarker = 65518
                                    THEN adobeOf(appData, parser.adobe) ELSE parser.adobe],
                      NoError)
    /\ UNCHANGED <<totalBytesAllocated, maxMemoryUsageBytes, budgetLog, arr, image,
                   getDataLog, scanLog, requestLog, prevErr, callLog, enc, unit>>

\* case DQT
ParseDQT ==
    /\ pc = "parse"
    /\ parser.fileMarker = 65499
    /\ \E r \in {DQT(arr, parser.offset, parser.quantizationTables, Budget)} :
           /\ SetBudget(r.M)
           /\ EndCase([parser EXCEPT !.offset = r.offset,
                                     !.quantizationTables = r.quantizationTables],
                      r.M.err)
    /\ UNCHANGED <<budgetLog, arr, decoder, image, getDataLog, scanLog, prevErr, callLog,
                   enc, unit>>

\* case SOF0, SOF1, SOF2
ParseSOF ==
    /\ pc = "parse"
    /\ parser.fileMarker \in {65472, 65473, 65474}
    /\ \E r \in {SOF(arr, parser.offset, parser.fileMarker,
                    decoder.opts.maxResolutionInMP, Budget)} :
           /\ SetBudget(r.M)
           /\ EndCase([parser EXCEPT !.offset = r.offset, !.frame = r.frame,
                                     !.frames = IF r.pushed THEN parser.frames + 1
                                                ELSE parser.frames],
                      r.M.err)
    /\ callLog' = [callLog EXCEPT !.sofs = callLog.sofs + 1, !.sofAt = parser.offset,
                                  !.sofGranted = requestLog.granted]
    /\ UNCHANGED <<budgetLog, arr, decoder, image, getDataLog, scanLog, prevErr, enc, unit>>

\* case DHT
ParseDHT ==
    /\ pc = "parse"
    /\ parser.fileMarker = 65476
    /\ \E r \in {DHT(arr, parser.offset, parser.huffmanTablesDC,
                    parser.huffmanTablesAC, Budget)} :
           /\ SetBudget(r.M)
           /\ EndCase([parser EXCEPT !.offset = r.offset,
                                     !.huffmanTablesDC = r.huffmanTablesDC,
                                     !.huffmanTablesAC = r.huffmanTablesAC],
                      r.M.err)
    /\ UNCHANGED <<budgetLog, arr, decoder, image, getDataLog, scanLog, prevErr, callLog,
                   enc, unit>>

\* case DRI: the length is skipped, the interval kept in resetInterval
ParseDRI ==
    /\ pc = "parse"
    /\ parser.fileMarker = 65501
    /\ EndCase([parser EXCEPT !.offset = parser.offset + 4,
                              !.resetInterval = readUint16(arr, parser.offset + 2)],
               NoError)
    /\ UNCHANGED <<totalBytesAllocated, maxMemoryUsageBytes, budgetLog, arr, decoder, image,
                   getDataLog, scanLog, requestLog, prevErr, callLog, enc, unit>>

\* case DNL: the length and the number of lines are skipped
ParseDNL ==
    /\ pc = "parse"
    /\ parser.fileMarker = 65500
    /\ EndCase([parser EXCEPT !.offset = parser.offset + 4], NoError)
    /\ UNCHANGED <<totalBytesAllocated, maxMemoryUsageBytes, budgetLog, arr, decoder, image,
                   getDataLog, scanLog, requestLog, prevErr, callLog, enc, unit>>

\* case SOS, the call of decodeScan included
ParseSOS ==
    /\ pc = "parse"
    /\ parser.fileMarker = 65498
    /\ \E r \in {SOS(arr, parser, decoder.opts.tolerantDecoding)} :
           /\ scanLog' = IF r.called THEN [calls |-> scanLog.calls + 1] @@ r.args
                         ELSE scanLog
           /\ EndCase([parser EXCEPT !.offset = r.offset, !.frame = r.frame], r.err)
    /\ UNCHANGED <<totalBytesAllocated, maxMemoryUsageBytes, budgetLog, arr, decoder, image,
                   getDataLog, requestLog, prevErr, callLog, enc, unit>>

\* a fill-byte case that backs up by two bytes, onto the marker it has read
ParseFill_BackUpTwo ==
    /\ pc = "parse"
    /\ parser.fileMarker = 65535
    /\ EndCase([parser EXCEPT !.offset = IF At(arr, parser.offset) # 255
                                         THEN parser.offset - 2 ELSE parser.offset],
               NoError)
    /\ UNCHANGED <<totalBytesAllocated, maxMemoryUsageBytes, budgetLog, arr, decoder, image,
                   getDataLog, scanLog, requestLog, prevErr, callLog, enc, unit>>

\* case 0xFFFF: fill bytes
ParseFill ==
    /\ pc = "parse"
    /\ parser.fileMarker = 65535
    /\ EndCase([parser EXCEPT !.offset = IF At(arr, parser.offset) # 255
                                         THEN parser.offset - 1 ELSE parser.offset],
               NoError)
    /\ UNCHANGED <<totalBytesAllocated, maxMemoryUsageBytes, budgetLog, arr, decoder, image,
                   getDataLog, scanLog, requestLog, prevErr, callLog, enc, unit>>

\* a default case that recovers from every malformed APP0/APP1, not only from
\* the first
Default_RecoverAgain(input, P) ==
    LET nextOffset == readUint16(input, P.offset)
        P1 == [P EXCEPT !.malformedDataOffset = P.offset - 1, !.offset = P.offset + 2]
    IN  IF /\ At(input, P.offset - 3) = 255
           /\ At(input, P.offset - 2) >= 192
           /\ At(input, P.offset - 2) <= 254
        THEN [P |-> [P EXCEPT !.offset = P.offset - 3], err |-> NoError]
        ELSE IF P.fileMarker \notin {224, 225}
        THEN [P |-> P, err |-> "unknown JPEG marker"]
        ELSE IF At(input, P1.offset + nextOffset - 2) = 255
        THEN [P |-> [P1 EXCEPT !.offset = P1.offset + nextOffset - 2], err |-> NoError]
        ELSE [P |-> P1, err |-> "unknown JPEG marker"]

\* the default case of the switch: the locals of parse after it and the
\* error thrown
Default(input, P) ==
    LET nextOffset == readUint16(input, P.offset)
        P1 == [P EXCEPT !.malformedDataOffset = P.offset - 1, !.offset = P.offset + 2]
    IN  IF /\ At(input, P.offset - 3) = 255
           /\ At(input, P.offset - 2) >= 192
           /\ At(input, P.offset - 2) <= 254
        THEN [P |-> [P EXCEPT !.offset = P.offset - 3], err |-> NoError]
        ELSE IF P.fileMarker \notin {224, 225}
        THEN [P |-> P, err |-> "unknown JPEG marker"]
        ELSE IF P.malformedDataOffset # -1
        THEN [P |-> P, err |-> "first unknown JPEG marker"]
        ELSE IF At(input, P1.offset + nextOffset - 2) = 255
        THEN [P |-> [P1 EXCEPT !.offset = P1.offset + nextOffset - 2], err |-> NoError]
        ELSE [P |-> P1, err |-> "unknown JPEG marker"]

\* the markers the switch of parse has a case for, and EOI
HasCase(marker) ==
    \/ IsAPPnOrCOM(marker)
    \/ marker \in {65280, 65499, 65472, 65473, 65474, 65476, 65501, 65500, 65498, 65535,
                   65497}

ParseDefault ==
    /\ pc = "parse"
    /\ ~HasCase(parser.fileMarker)
    /\ \E r \in {Default(arr, parser)} : EndCase(r.P, r.err)
    /\ UNCHANGED <<totalBytesAllocated, maxMemoryUsageBytes, budgetLog, arr, decoder, image,
                   getDataLog, scanLog, requestLog, prevErr, callLog, enc, unit>>

\* a marker loop that also ends at the marker 0 read past the end of the data
LoopEnds_AtEndOfData(marker) == marker \in {65497, 0}

\* while (fileMarker !== 0xFFD9): the loop ends at EOI
LoopEnds(marker) == marker = 65497

\* parse after the loop left at EOI: the single frame, its quantization
\* tables, and buildComponentData for each component of componentsOrder
ParseEnd ==
    /\ pc = "parse"
    /\ LoopEnds(parser.fileMarker)
    /\ IF parser.frames # 1
       THEN /\ err' = "only single frame JPEGs supported"
            /\ pc' = "done"
            /\ UNCHANGED <<totalBytesAllocated, maxMemoryUsageBytes, requestLog, parser,
                           decoder>>
       ELSE \E f \in {WithQuantizationTables(parser.frame, parser.quantizationTables)} :
            \E b \in {BuildComponents(f, 1, <<>>, Budget)} :
                /\ SetBudget(b.M)
                /\ err' = b.M.err
                /\ pc' = IF b.M.err = NoError THEN "parsed" ELSE "done"
                /\ parser' = [parser EXCEPT !.frame = f]
                /\ decoder' = [decoder EXCEPT !.width = f.samplesPerLine,
                                              !.height = f.scanLines,
                                              !.jfif = parser.jfif,
                                              !.adobe = parser.adobe,
                                              !.components = b.components]
    /\ UNCHANGED <<budgetLog, arr, image, getDataLog, scanLog, prevErr, callLog, enc, unit>>

\* decode after parse: the request of bytesNeeded and the image, whose data
\* is a view of the buffer of the array getData returned
CreateImage ==
    /\ pc = "parsed"
    /\ LET channels == IF decoder.opts.formatAsRGBA THEN 4 ELSE 3
           bytesNeeded == decoder.width * decoder.height * channels
       IN
       \E g \in {getData(decoder.components, decoder.width, decoder.height, decoder.adobe,
                         decoder.opts.colorTransform, Alloc(Budget, bytesNeeded))} :
           /\ SetBudget(g.M)
           /\ err' = g.M.err
           /\ pc' = IF g.M.err = NoError THEN "copy" ELSE "done"
           /\ getDataLog' = g.colorTransform
           /\ image' = IF g.M.err = NoError
                       THEN [defined |-> TRUE, width |-> decoder.width,
                             height |-> decoder.height, data |-> g.data,
                             exifBuffer |-> decoder.exifBuffer,
                             comments |-> commentsOf(decoder.comments)]
                       ELSE image
    /\ UNCHANGED <<budgetLog, arr, decoder, parser, scanLog, prevErr, callLog, enc, unit>>

\* decoder.copyToImageData(image, opts.formatAsRGBA) and the return of image
CopyToImageData ==
    /\ pc = "copy"
    /\ \E c \in {copyToImageData(decoder.components, image, decoder.adobe,
                                  decoder.opts.colorTransform, decoder.opts.formatAsRGBA,
                                  Budget)} :
           /\ SetBudget(c.M)
           /\ err' = c.M.err
           /\ image' = [image EXCEPT !.data = c.data]
    /\ pc' = "done"
    /\ UNCHANGED <<budgetLog, arr, decoder, parser, getDataLog, scanLog, prevErr,
                   callLog, enc, unit>>

Init ==
    /\ totalBytesAllocated = 0
    /\ maxMemoryUsageBytes = 0
    /\ budgetLog = NoBudgetOp
    /\ DecoderIdle
    /\ enc = NoEncoder
    /\ unit = NoUnit

Next ==
    \/ DecodeCall
    \/ ParseFF00
    \/ ParseAPPn
    \/ ParseDQT
    \/ ParseSOF
    \/ ParseDHT
    \/ ParseDRI
    \/ ParseDNL
    \/ ParseSOS
    \/ ParseFill
    \/ ParseDefault
    \/ ParseEnd
    \/ CreateImage
    \/ CopyToImageData

Spec == Init /\ [][Next]_vars

(***************************************************************************)
(* TerminationSpec: one call of decode, from its entry to its end.  decode *)
(* is synchronous: once called, no step of it waits for anything, which is *)
(* the weak fairness of its steps.                                         *)
(***************************************************************************)
FirstCall == pc = "idle" /\ DecodeCall

OneCallNext ==
    \/ FirstCall
    \/ ParseFF00
    \/ ParseAPPn
    \/ ParseDQT
    \/ ParseSOF
    \/ ParseDHT
    \/ ParseDRI
    \/ ParseDNL
    \/ ParseSOS
    \/ ParseFill
    \/ ParseDefault
    \/ ParseEnd
    \/ CreateImage
    \/ CopyToImageData

\* A step of OneCallNext is possible in every state of a call that has not
\* ended (the entry when idle, a case of the switch or the end of the loop in
\* parse, the steps of decode after parse), and in no state with pc = "done".
\* Runs is WF_vars(OneCallNext) with ENABLED <<OneCallNext>>_vars written as
\* pc # "done".
Runs == []<>(pc = "done") \/ []<><<OneCallNext>>_vars

TerminationSpec == Init /\ [][OneCallNext]_vars /\ Runs

(***************************************************************************)
(* The encoder on its own: calls of the exported encode, further calls of  *)
(* JPEGEncoder.encode on the instance, and scans driven one writeBits or   *)
(* processDU at a time.                                                    *)
(***************************************************************************)
\* encode(img, quality), the exported function
EncodeCall ==
    /\ ~enc.constructed
    /\ \E call \in EncodeCalls :
        \E r \in {encode(call[1], call[2])} :
            enc' = [constructed |-> TRUE, obj |-> r.E, phase |-> "idle", calls |-> 1,
                    writes |-> 0,
                    last |-> [op |-> "encode", img |-> call[1], quality |-> call[2],
                              out |-> r.data, prior |-> Undef]]
    /\ UNCHANGED encoderFrame

\* encoder.encode(img, quality) on the instance of the last call
EncodeAgain ==
    /\ enc.constructed
    /\ enc.phase = "idle"
    /\ enc.calls < MaxCalls
    /\ \E call \in EncodeCalls :
        \E E \in {encodeImage(enc.obj, call[1], call[2])} :
            enc' = [enc EXCEPT !.obj = E, !.calls = enc.calls + 1,
                               !.last = [op |-> "method", img |-> call[1],
                                         quality |-> call[2], out |-> ToBytes(E.byteout),
                                         prior |-> enc.obj.currentQuality]]
    /\ UNCHANGED encoderFrame

\* new JPEGEncoder(quality) and encode up to its loop over the blocks
StartScan ==
    /\ ~enc.constructed
    /\ \E img \in {Uniform(1, 1, Red)}, quality \in {50} :
        \E E \in {EncodeHeaders(NewEncoder(quality), img, quality)} :
            enc' = [constructed |-> TRUE, obj |-> E, phase |-> "scan", calls |-> 1,
                    writes |-> 0,
                    last |-> [op |-> "scan", img |-> img, quality |-> quality,
                              out |-> <<>>, prior |-> Undef]]
    /\ UNCHANGED encoderFrame

\* writeBits(bs) in the scan
WriteBits ==
    /\ enc.phase = "scan"
    /\ enc.obj.err = NoError
    /\ enc.writes < MaxWrites
    /\ \E bs \in BitStrings :
        enc' = [enc EXCEPT !.obj = writeBits(enc.obj, bs), !.writes = enc.writes + 1]
    /\ UNCHANGED encoderFrame

\* processDU in the scan, from its quantised block on
ProcessDU ==
    /\ enc.phase = "scan"
    /\ enc.obj.err = NoError
    /\ enc.writes < MaxWrites
    /\ \E DU \in Blocks, DC \in {0}, luminance \in BOOLEAN :
        \E r \in {EncodeDU(enc.obj, DU, DC, IF luminance THEN YDC_HT ELSE UVDC_HT,
                           IF luminance THEN YAC_HT ELSE UVAC_HT)} :
            enc' = [enc EXCEPT !.obj = r.E, !.writes = enc.writes + 1]
    /\ UNCHANGED encoderFrame

\* the end of encode: the bit alignment, EOI and the return
EndScan ==
    /\ enc.phase = "scan"
    /\ enc.obj.err = NoError
    /\ \E E \in {EncodeEnd(enc.obj)} :
        enc' = [enc EXCEPT !.obj = E, !.phase = "ended",
                           !.last = [enc.last EXCEPT !.out = ToBytes(E.byteout)]]
    /\ UNCHANGED encoderFrame

EncoderNext ==
    \/ EncodeCall
    \/ EncodeAgain
    \/ StartScan
    \/ WriteBits
    \/ ProcessDU
    \/ EndScan

EncoderSpec == Init /\ [][EncoderNext]_vars

(***************************************************************************)
(* BudgetSpec: the budget driven directly through its two public static    *)
(* methods, by any sequence of calls.                                      *)
(***************************************************************************)
BudgetInit ==
    /\ totalBytesAllocated = 0
    /\ maxMemoryUsageBytes = 0
    /\ budgetLog = NoBudgetOp
    /\ DecoderIdle
    /\ enc = NoEncoder
    /\ unit = NoUnit

Reset ==
    \E ceiling \in 0..MaxCeiling :
        LET r == resetMaxMemoryUsage(ceiling)
        IN  /\ totalBytesAllocated' = r.total
            /\ maxMemoryUsageBytes' = r.max
            /\ budgetLog' = [op |-> "reset", delta |-> ceiling,
                             before |-> totalBytesAllocated,
                             maxBefore |-> maxMemoryUsageBytes, ok |-> TRUE,
                             prevFailed |-> ~budgetLog.ok]
            /\ UNCHANGED <<decodeVars, enc, unit>>

Request ==
    \E delta \in 0..MaxDelta :
        LET r == requestMemoryAllocation(totalBytesAllocated, maxMemoryUsageBytes, delta)
        IN  /\ totalBytesAllocated' = r.total
            /\ maxMemoryUsageBytes' = maxMemoryUsageBytes
            /\ budgetLog' = [op |-> "request", delta |-> delta,
                             before |-> totalBytesAllocated,
                             maxBefore |-> maxMemoryUsageBytes, ok |-> r.ok,
                             prevFailed |-> ~budgetLog.ok]
            /\ UNCHANGED <<decodeVars, enc, unit>>

BudgetNext == Reset \/ Request

BudgetSpec == BudgetInit /\ [][BudgetNext]_vars

(***************************************************************************)
(* Claims about the budget, checked under BudgetSpec.                      *)
(***************************************************************************)
\* C3: after reset(ceiling) and any sequence of request(delta), delta >= 0,
\* failed or not, 0 <= counter <= ceiling holds in every reachable state, and
\* no request lowers the counter (it only changes downwards at a reset).
C3_CounterWithinCeiling ==
    /\ 0 <= totalBytesAllocated
    /\ totalBytesAllocated <= maxMemoryUsageBytes
    /\ budgetLog.op = "request" => totalBytesAllocated >= budgetLog.before

\* C3 witness: a request has just failed on a counter that earlier requests
\* had raised above 0.
C3_Witness ==
    /\ budgetLog.op = "request"
    /\ ~budgetLog.ok
    /\ totalBytesAllocated > 0
    /\ totalBytesAllocated < maxMemoryUsageBytes

\* C5: a request with counter + delta > ceiling fails and leaves the counter
\* and the ceiling as they were; a request with counter + delta <= ceiling
\* succeeds and adds exactly delta.
C5_RequestAllOrNothing ==
    budgetLog.op = "request" =>
        /\ maxMemoryUsageBytes = budgetLog.maxBefore
        /\ IF budgetLog.before + budgetLog.delta > budgetLog.maxBefore
           THEN ~budgetLog.ok /\ totalBytesAllocated = budgetLog.before
           ELSE budgetLog.ok
                /\ totalBytesAllocated = budgetLog.before + budgetLog.delta

\* C5 witness: a request that fits exactly under the ceiling succeeds right
\* after a larger request failed.
C5_Witness ==
    /\ budgetLog.op = "request"
    /\ budgetLog.ok
    /\ budgetLog.prevFailed
    /\ budgetLog.delta > 0
    /\ totalBytesAllocated = maxMemoryUsageBytes

(***************************************************************************)
(* Claims about decode, checked under Spec.                                *)
(***************************************************************************)
\* the SOS segment of the scan decoded last is laid out as the JPEG format
\* has it: the 16-bit length Ls = 6 + 2 * Ns after the marker, then Ns
WellFormedSOS ==
    /\ scanLog.calls > 0
    /\ At(arr, scanLog.at + 2) \in 1..MaxComponents
    /\ readUint16(arr, scanLog.at) = 6 + 2 * At(arr, scanLog.at + 2)

\* C1: every image decode returns for a frame of 1, 3 or 4 components under
\* formatAsRGBA = true has data of length exactly 4 * width * height, and
\* every byte of it at an index 4k + 3 is 255.
C1_RGBALengthAndAlpha ==
    (/\ pc = "done"
     /\ WellFormedSOS
     /\ err = NoError
     /\ decoder.opts.formatAsRGBA
     /\ Len(decoder.components) \in {1, 3, 4})
        => /\ Len(image.data) = 4 * image.width * image.height
           /\ \A k \in 0..(image.width * image.height - 1) :
                  At(image.data, 4 * k + 3) = 255

\* C4: every call of decode starts with the counter at 0 and the ceiling of
\* its own maxMemoryUsageInMB, whatever the calls before it did: all through
\* a call the ceiling is that of the call's own option and the counter is
\* the sum of the requests granted in this call alone, and the call fails
\* with the memory-limit error only on a request that, added to the requests
\* of this call granted before it, exceeds this ceiling.  So a decode that
\* fits under its ceiling succeeds after a decode that failed on memory.
C4_BudgetScopedPerCall ==
    pc # "idle"
        => /\ maxMemoryUsageBytes = decoder.opts.maxMemoryUsageInMB * BytesPerMB
           /\ totalBytesAllocated = requestLog.granted
           /\ err = MemoryLimitExceeded
                 => requestLog.granted + requestLog.failed > maxMemoryUsageBytes
           /\ err # MemoryLimitExceeded => requestLog.failed = 0

\* C4 witness: a call of decode has returned an image, having requested
\* memory, right after a call that failed with the memory-limit error.
C4_Witness ==
    /\ pc = "done"
    /\ err = NoError
    /\ image.defined
    /\ requestLog.granted > 0
    /\ prevErr = MemoryLimitExceeded

\* C2: for an SOS segment laid out as marker, 16-bit length Ls = 6 + 2 * Ns,
\* Ns, Ns selector pairs, Ss, Se, Ah/Al, decodeScan is called with exactly
\* the Ns components of the selectors, each with the DC and AC tables its
\* selector names, with spectralStart = Ss, spectralEnd = Se, successivePrev
\* = Ah and successive = Al, and it reads the entropy-coded data from the
\* first byte after the header.
C2_ScanGetsHeaderFields ==
    LET at == scanLog.at
        Ns == At(arr, at + 2)
        fields == at + 3 + 2 * Ns
    IN  WellFormedSOS
            => /\ Len(scanLog.components) = Ns
               /\ \A i \in 1..Ns :
                      scanLog.components[i] =
                          [id |-> At(arr, at + 1 + 2 * i),
                           dc |-> At(arr, at + 2 + 2 * i) \div 16,
                           ac |-> At(arr, at + 2 + 2 * i) % 16]
               /\ scanLog.spectralStart = At(arr, fields)
               /\ scanLog.spectralEnd = At(arr, fields + 1)
               /\ scanLog.successivePrev = At(arr, fields + 2) \div 16
               /\ scanLog.successive = At(arr, fields + 2) % 16
               /\ scanLog.offset = fields + 3

\* C6: once an SOF has declared scanLines * samplesPerLine greater than
\* maxResolutionInMP * 1,000,000, decode has failed with the
\* resolution-exceeded error at that SOF: no block grid of a component was
\* prepared and no scan was decoded.
C6_ResolutionCeiling ==
    (/\ parser.frame.defined
     /\ parser.frame.scanLines * parser.frame.samplesPerLine
            > decoder.opts.maxResolutionInMP * 1000000)
        => /\ pc = "done"
           /\ err = ResolutionExceeded
           /\ parser.frame.componentsOrder = <<>>
           /\ scanLog.calls = 0

\* C7: when a DRI segment declared a restart interval n > 0 before a scan,
\* decodeScan is handed n as its resetInterval, and a stream that carries
\* the RSTm markers at that interval decodes without error.
C7_RestartIntervalHonoured ==
    (/\ WellFormedSOS
     /\ parser.resetInterval # Undef
     /\ parser.resetInterval > 0)
        => /\ scanLog.resetInterval = parser.resetInterval
           /\ pc = "done" => err = NoError

\* C8: under formatAsRGBA = false the data decode returns has length exactly
\* 3 * width * height for an image of 3 or 4 components and width * height
\* for a grayscale image.
C8_RGBLength ==
    (/\ pc = "done"
     /\ WellFormedSOS
     /\ err = NoError
     /\ ~decoder.opts.formatAsRGBA
     /\ Len(decoder.components) \in {1, 3, 4})
        => Len(image.data) = (IF Len(decoder.components) = 1 THEN 1 ELSE 3)
                                 * image.width * image.height

\* C9: when the caller sets colorTransform, that value alone decides whether
\* getData transforms an image of 3 or 4 components, whatever the transform
\* code of the Adobe segment: false never transforms, true always does.
C9_ExplicitColorTransformWins ==
    (/\ getDataLog # "unset"
     /\ WellFormedSOS
     /\ decoder.opts.colorTransform # "undefined")
        => getDataLog = decoder.opts.colorTransform

\* C10: decode of a well-formed JPEG whose frame has exactly 2 components
\* returns an image, and the unsupported-colour-mode error is thrown only
\* for a number of components outside 1..4 or for 4 components without an
\* Adobe segment.
C10_TwoComponentsSupported ==
    /\ (pc = "done" /\ WellFormedSOS /\ Len(decoder.components) = 2)
           => err = NoError
    /\ err \in {UnsupportedColorMode, UnsupportedColorMode4}
           => \/ Len(decoder.components) \notin 1..4
              \/ Len(decoder.components) = 4 /\ ~decoder.adobe.defined
(***************************************************************************)
(* Claims about the frame header, checked under Spec.                      *)
(***************************************************************************)
\* the SOF whose marker ends at offset at declares a component with h = 0 or
\* v = 0
ZeroFactorIn(data, at) ==
    \E i \in 0..(ToInt(At(data, at + 7)) - 1) :
        \/ ToInt(At(data, at + 9 + 3 * i)) \div 16 = 0
        \/ ToInt(At(data, at + 9 + 3 * i)) % 16 = 0

\* C20: once decode has met an SOF that declares h = 0 or v = 0 for a
\* component, its pixel count within the resolution ceiling, decode has
\* failed with the invalid-sampling-factor error, that SOF has requested no
\* memory, and no component of its frame has a block grid.
C20_ZeroSamplingFactorRejected ==
    (/\ callLog.sofs > 0
     /\ ZeroFactorIn(arr, callLog.sofAt)
     /\ readUint16(arr, callLog.sofAt + 3) * readUint16(arr, callLog.sofAt + 5)
            <= decoder.opts.maxResolutionInMP * 1000000)
        => /\ pc = "done"
           /\ err = "Invalid sampling factor"
           /\ requestLog = [granted |-> callLog.sofGranted, failed |-> 0]
           /\ \A k \in DOMAIN parser.frame.components :
                  /\ parser.frame.components[k].blocksPerLineForMcu = 0
                  /\ parser.frame.components[k].blocksPerColumnForMcu = 0

\* a decode that failed at an SOF whose third component has a factor of 0,
\* after the requests of the segments before it were granted
C20_Witness ==
    /\ callLog.sofs > 0
    /\ ZeroFactorIn(arr, callLog.sofAt)
    /\ At(arr, callLog.sofAt + 7) = 3
    /\ DOMAIN parser.frame.components = {1, 2}
    /\ err = "Invalid sampling factor"
    /\ requestLog.granted > 0

\* C16: block storage is allocated at most once per call of decode: once a
\* second SOF has been met decode has failed, at that segment, with the
\* multiple-frames error; the second SOF was granted no memory, the frame
\* is the one of the first SOF, and no scan was decoded after it.
C16_SecondSOFRejected ==
    callLog.sofs >= 2
        => /\ pc = "done"
           /\ err = "only single frame JPEGs supported"
           /\ parser.frames <= 1
           /\ requestLog.granted = callLog.sofGranted
           /\ scanLog.calls > 0 => scanLog.at < callLog.sofAt

(***************************************************************************)
(* Claims about the marker loop of parse, checked under Spec.              *)
(***************************************************************************)
\* parse stands at a marker 0x00E0 or 0x00E1
AtMalformedMarker == pc = "parse" /\ parser.fileMarker \in {224, 225}

\* C18: the recovery from a malformed APP0/APP1 is applied at most once in a
\* call of decode.  At the first such marker its offset is recorded, and if
\* the byte its length leads to is 0xFF parsing resumes with the marker read
\* there; at a marker met when an offset is already recorded decode fails
\* with the error that names both offsets; and the recorded offset is kept
\* by every other step of the call, whatever the segment.
C18_MalformedRecoveryOnce ==
    [][/\ (AtMalformedMarker /\ parser.malformedDataOffset = -1)
            => /\ parser'.malformedDataOffset = parser.offset - 1
               /\ LET target == parser.offset + readUint16(arr, parser.offset)
                   IN  IF At(arr, target) = 255
                       THEN /\ pc' = "parse" /\ err' = NoError
                            /\ parser'.fileMarker = readUint16(arr, target)
                            /\ parser'.offset = target + 2
                       ELSE pc' = "done" /\ err' = "unknown JPEG marker"
       /\ (AtMalformedMarker /\ parser.malformedDataOffset # -1)
            => /\ pc' = "done"
               /\ err' = "first unknown JPEG marker"
               /\ parser'.malformedDataOffset = parser.malformedDataOffset
       /\ (pc = "parse" /\ parser.malformedDataOffset # -1)
            => parser'.malformedDataOffset = parser.malformedDataOffset]_vars

\* a decode that recovered from a malformed APP0, read a comment, and failed
\* at a second malformed APP0
C18_Witness ==
    /\ pc = "done"
    /\ err = "first unknown JPEG marker"
    /\ parser.malformedDataOffset = 3
    /\ parser.fileMarker = 224
    /\ Len(decoder.comments) = 1

C19_DecodeTerminates ==
    /\ (pc \in {"parse", "parsed", "copy"}) ~> (pc = "done")
    /\ [](parser.reads <= 2 * Len(arr) + 2 /\ parser.reads < MaxReads)
    /\ [][(pc = "parse" /\ pc' = "parse")
            => /\ \/ parser'.offset > parser.offset
                  \/ /\ parser.fileMarker < 65280
                     /\ parser'.offset = parser.offset - 1
                     /\ parser'.fileMarker \in 65472..65534
               /\ parser.fileMarker \in 65472..65534
                      => parser'.offset >= parser.offset + 2]_vars

\* a decode that ended after a 3-byte rewind and a fill-byte back-up
C19_Witness ==
    /\ pc = "done"
    /\ arr \in { SOI \o <<255, 255, 0>>, SOI \o <<255, 192, 192>> }

(***************************************************************************)
(* The encoder                                                             *)
(***************************************************************************)
\* the offsets (from 1) of the entropy-coded data in byteout: from the end of
\* the SOS header to the last byte written, EOI excluded once it is written
ScanBytes ==
    (enc.obj.scanAt + 1)..(IF enc.phase = "scan" \/ enc.obj.err # NoError
                           THEN Len(enc.obj.byteout) ELSE Len(enc.obj.byteout) - 2)

\* C15: in the entropy-coded data every byte 0xFF is directly followed by a
\* byte 0x00, after every sequence of writeBits and processDU calls and after
\* the final padding, and between the calls the pending byte bytenew holds
\* fewer than 8 bits: bytepos is in 0..7 and only the 7 - bytepos highest
\* bits of bytenew can be set.
C15_ScanBytesStuffed ==
    (enc.constructed /\ enc.obj.scanAt # Undef)
        => /\ \A i \in ScanBytes :
                  enc.obj.byteout[i] = 255
                      => i + 1 \in ScanBytes /\ enc.obj.byteout[i + 1] = 0
           /\ enc.obj.bytepos \in 0..7
           /\ enc.obj.bytenew \in 0..255
           /\ enc.obj.bytenew % (2 ^ (enc.obj.bytepos + 1)) = 0
           /\ (enc.phase # "scan" /\ enc.obj.err = NoError)
                  => /\ enc.obj.bytepos = 7 /\ enc.obj.bytenew = 0
                     /\ SubSeq(enc.obj.byteout, Len(enc.obj.byteout) - 1,
                               Len(enc.obj.byteout)) = <<255, 217>>

\* a driven scan has ended whose data holds a stuffed 0xFF before its last
\* two bytes
C15_Witness ==
    /\ enc.phase = "ended"
    /\ enc.writes = MaxWrites
    /\ \E i \in ScanBytes :
           /\ enc.obj.byteout[i] = 255
           /\ enc.obj.byteout[i + 1] = 0
           /\ i + 3 \in ScanBytes

\* the segment of the bytes out whose marker is at offset at (from 0): its
\* code and the payload its length field spans
SegmentAt(out, at) ==
    [code |-> At(out, at + 1), at |-> at,
     payload |-> SubArray(out, at + 4, at + 2 + readUint16(out, at + 2))]

\* the segments of out from offset at on, up to the first SOS (included)
RECURSIVE SegmentsFrom(_, _)
SegmentsFrom(out, at) ==
    IF At(out, at) # 255 \/ at + 4 > Len(out) THEN <<>>
    ELSE Let(SegmentAt(out, at), LAMBDA seg :
             IF seg.code = 218 THEN <<seg>>
             ELSE <<seg>> \o SegmentsFrom(out, at + 4 + Len(seg.payload)))

\* the elements of img.comments that are strings, in order
StringComments(img) ==
    IF img.comments.defined
    THEN SelectSeq(img.comments.list, LAMBDA c : c.isString) ELSE <<>>

\* out is SOI, APP0 'JFIF', one COM per string comment of img in order, an
\* APP1 holding img.exifBuffer iff it is given, DQT, SOF0, DHT, SOS, scan
\* data without a marker, and EOI, and nothing else
WellFormedOutput(out, img) ==
    Let(SegmentsFrom(out, 2), LAMBDA segs :
        LET n == Len(StringComments(img))
            x == IF img.exifBuffer.defined THEN 1 ELSE 0
            scan == segs[Len(segs)].at + 4 + Len(segs[Len(segs)].payload)
        IN  /\ SubArray(out, 0, 2) = <<255, 216>>
            /\ Len(segs) = 1 + n + x + 4
            /\ segs[1].code = 224
            /\ segs[1].payload = <<74, 70, 73, 70, 0, 1, 1, 0, 0, 1, 0, 1, 0, 0>>
            /\ \A i \in 1..n :
                   /\ segs[1 + i].code = 254
                   /\ segs[1 + i].payload = ToBytes(StringComments(img)[i].chars)
            /\ x = 1 => /\ segs[n + 2].code = 225
                        /\ segs[n + 2].payload \in
                               { img.exifBuffer.bytes,
                                 <<69, 120, 105, 102, 0>> \o img.exifBuffer.bytes }
            /\ segs[n + x + 2].code = 219 /\ Len(segs[n + x + 2].payload) = 130
            /\ segs[n + x + 3].code = 192
            /\ SubArray(segs[n + x + 3].payload, 0, 6)
                   = <<8>> \o Word(img.height) \o Word(img.width) \o <<3>>
            /\ Len(segs[n + x + 3].payload) = 15
            /\ segs[n + x + 4].code = 196 /\ Len(segs[n + x + 4].payload) = 416
            /\ segs[n + x + 5].code = 218 /\ Len(segs[n + x + 5].payload) = 10
            /\ Len(out) >= scan + 2
            /\ SubArray(out, Len(out) - 2, Len(out)) = <<255, 217>>
            /\ \A i \in scan..(Len(out) - 3) :
                   At(out, i) = 255 => i < Len(out) - 3 /\ At(out, i + 1) = 0)

\* C14: what a call of encode returns is, in this order and with nothing
\* else, SOI, one APP0 JFIF segment, one COM segment per string comment in
\* input order, one APP1 segment iff an exifBuffer was given, DQT, SOF0, DHT,
\* SOS, the entropy-coded data and EOI as its last two bytes, for the
\* exported function and for a further call of encode on the same instance.
C14_OutputStructure ==
    enc.last.op \in {"encode", "method"} => WellFormedOutput(enc.last.out, enc.last.img)

\* a second call on an instance returned, for an image with two string
\* comments and an element that is no string
C14_Witness ==
    /\ enc.last.op = "method"
    /\ enc.calls = 2
    /\ Len(StringComments(enc.last.img)) = 2
    /\ Len(enc.last.img.comments.list) = 3
    /\ enc.last.out # <<>>

\* the quality encode is specified to use for the argument quality
EffectiveQuality(quality) ==
    IF quality = Undef THEN 50 ELSE Min(100, Max(1, quality))

\* the payload of the DQT segment of out
DQTPayloadOf(out) ==
    Let(SegmentsFrom(out, 2), LAMBDA segs :
        segs[CHOOSE i \in 1..Len(segs) : segs[i].code = 219].payload)

\* the DQT payload of the quality q: table 0 from YQT and table 1 from UVQT,
\* scaled by 5000 / q below 50 and by 200 - 2 q from 50 on
DQTPayloadFor(q) ==
    LET sf == IF q < 50 THEN 5000 \div q ELSE 200 - q * 2
    IN  <<0>> \o QuantTable(YQT, sf) \o <<1>> \o QuantTable(UVQT, sf)

\* C13: the exported encode uses quality 50 when the argument is omitted and
\* min(100, max(1, q)) for every number q given, 0 and negative numbers
\* included: the tables of the DQT segment it writes are those of that value.
C13_QualityClamped ==
    enc.last.op = "encode"
        => DQTPayloadOf(enc.last.out) = DQTPayloadFor(EffectiveQuality(enc.last.quality))

(***************************************************************************)
(* encode and decode together                                              *)
(***************************************************************************)
\* a call of decode on the output of encode has ended
EncodedCallDone == pc = "done" /\ callLog.source.encoded

\* the comments of the encoded image as decode returns strings: one per
\* string, each char code as the byte that was written for it
CommentsGiven == [i \in 1..Len(StringComments(callLog.source.img)) |->
                     ToBytes(StringComments(callLog.source.img)[i].chars)]

\* all elements of the comments given to encode are strings
OnlyStrings ==
    /\ callLog.source.img.comments.defined
    /\ Len(StringComments(callLog.source.img)) = Len(callLog.source.img.comments.list)

\* C11 as stated: for every list C of comment strings, the empty list
\* included, decode(encode(image with comments C)).comments equals C.
C11_CommentsRoundTrip ==
    (EncodedCallDone /\ OnlyStrings)
        => /\ image.defined
           /\ image.comments = [defined |-> TRUE, list |-> CommentsGiven]

\* C11: for every nonempty list C of comment strings (empty strings
\* included) decode(encode(image with comments C)).comments equals C, same
\* number, text and order; for the empty list it is undefined.
C11_NonemptyCommentsRoundTrip ==
    (EncodedCallDone /\ OnlyStrings)
        => /\ image.defined
           /\ CommentsGiven # <<>>
                  => image.comments = [defined |-> TRUE, list |-> CommentsGiven]
           /\ CommentsGiven = <<>> => image.comments = NoComments

\* three comments, an empty one among them, came back from the round trip
C11_Witness ==
    /\ EncodedCallDone
    /\ OnlyStrings
    /\ image.defined
    /\ Len(CommentsGiven) = 3
    /\ CommentsGiven[2] = <<>>
    /\ image.comments.list = CommentsGiven

\* the EXIF buffer given to encode
ExifGiven == callLog.source.img.exifBuffer.bytes

\* C12 as stated: for every EXIF buffer e, beginning with "Exif" or not,
\* decode(encode(image with exifBuffer e)).exifBuffer equals e byte for byte.
C12_ExifRoundTrip ==
    (EncodedCallDone /\ callLog.source.img.exifBuffer.defined)
        => /\ image.defined
           /\ image.exifBuffer = [defined |-> TRUE, bytes |-> ExifGiven]

\* C12: for an EXIF buffer e that does not begin with "Exif" the round trip
\* returns e byte for byte; for e beginning with "Exif\0" it returns e
\* without these five bytes; for e beginning with "Exif" and no 0 after it,
\* it returns no exifBuffer.
C12_ExifRoundTripWithoutHeader ==
    (EncodedCallDone /\ callLog.source.img.exifBuffer.defined)
        => /\ image.defined
           /\ ~HasPrefix(ExifGiven, <<69, 120, 105, 102>>)
                  => image.exifBuffer = [defined |-> TRUE, bytes |-> ExifGiven]
           /\ HasPrefix(ExifGiven, <<69, 120, 105, 102, 0>>)
                  => image.exifBuffer
                         = [defined |-> TRUE,
                            bytes |-> SubArray(ExifGiven, 5, Len(ExifGiven))]
           /\ (/\ HasPrefix(ExifGiven, <<69, 120, 105, 102>>)
               /\ ~HasPrefix(ExifGiven, <<69, 120, 105, 102, 0>>))
                  => image.exifBuffer = NoExif

\* a buffer that begins with "Exif\0" came back without its header
C12_Witness ==
    /\ EncodedCallDone
    /\ image.defined
    /\ callLog.source.img.exifBuffer.defined
    /\ Len(ExifGiven) = 9
    /\ HasPrefix(ExifGiven, <<69, 120, 105, 102, 0>>)
    /\ image.exifBuffer.bytes = <<77, 77, 0, 42>>

\* the components of the last scan decoded
ScanComponents == {scanLog.components[i].id : i \in 1..Len(scanLog.components)}

\* C26: whenever a scan has been decoded, the quantization table that each
\* of its components names was defined by a DQT segment before the scan;
\* and no image is returned from a stream without that table.
C26_TablesDefinedBeforeScan ==
    /\ (pc = "parse" /\ scanLog.calls > 0)
           => \A id \in ScanComponents :
                  parser.frame.components[id].quantizationIdx
                      \in DOMAIN parser.quantizationTables
    /\ image.defined
           => \A id \in DOMAIN parser.frame.components :
                  parser.frame.components[id].quantizationTable.defined

\* the payloads of the APP1 segments of the data, in order
App1Given == callLog.source.app1

IsExif(appData) == HasPrefix(appData, <<69, 120, 105, 102, 0>>)

\* the last APP1 payload that starts with 'Exif\x00'
LastExif ==
    App1Given[CHOOSE i \in DOMAIN App1Given :
                  /\ IsExif(App1Given[i])
                  /\ \A j \in DOMAIN App1Given : IsExif(App1Given[j]) => j <= i]

\* decode returned an image for data with APP1 segments
App1CallDone == image.defined /\ "app1" \in DOMAIN callLog.source

\* C27: for APP1 payloads that start with 'Exif\x00' the exifBuffer
\* returned is the last such payload from its byte 6 on (counted from 0);
\* when no APP1 payload starts with 'Exif\x00' no exifBuffer is returned.
C27_ExifFromByteSix ==
    App1CallDone
        => IF \E i \in DOMAIN App1Given : IsExif(App1Given[i])
           THEN image.exifBuffer
                    = [defined |-> TRUE, bytes |-> SubArray(LastExif, 6, Len(LastExif))]
           ELSE image.exifBuffer = NoExif

\* C27 as the code has it: for APP1 payloads that start with 'Exif\x00'
\* the exifBuffer returned is the last such payload from its byte 5 on
\* (counted from 0), all of it after these five bytes; when no APP1 payload
\* starts with 'Exif\x00' no exifBuffer is returned.
C27_ExifFromByteFive ==
    App1CallDone
        => IF \E i \in DOMAIN App1Given : IsExif(App1Given[i])
           THEN image.exifBuffer
                    = [defined |-> TRUE, bytes |-> SubArray(LastExif, 5, Len(LastExif))]
           ELSE image.exifBuffer = NoExif

\* of two EXIF segments the second was returned
C27_Witness ==
    /\ App1CallDone
    /\ App1Given = <<Exif12, Exif3>>
    /\ image.exifBuffer = [defined |-> TRUE, bytes |-> <<0, 3>>]

(***************************************************************************)
(* UnitSpec: functions of the decoder and of the encoder called on their   *)
(* own, each on arguments drawn from a bounded set.  unit holds the last   *)
(* call: the function, its arguments and what it returned.                 *)
(***************************************************************************)
unitFrame == <<totalBytesAllocated, maxMemoryUsageBytes, budgetLog, decodeVars, enc>>

\* each behaviour of UnitSpec is one call, made in the initial state
NoUnitYet == unit = NoUnit

\* the bytes readBit is tried on: part of a code, the byte 0xFF, the stuffed
\* 0, RST0, RST7 and EOI
BitBytes == {0, 165, 208, 215, 217, 255}

BitData == {<<a>> : a \in BitBytes} \cup {<<a, b>> : a, b \in BitBytes}

\* the reader of a scan, as decodeScan declares it (bitsData, bitsCount) and
\* at any offset
BitReaders ==
    [offset : 0..1, bitsData : {0, 165}, bitsCount : {0, 3}, err : {NoError}]

\* readBit() in a scan over data
ReadBit ==
    /\ NoUnitYet
    /\ \E data \in BitData, S \in BitReaders :
        \E r \in {readBit(data, S)} :
            unit' = [fn |-> "readBit", data |-> data, before |-> S,
                     bit |-> r.bit, after |-> r.s]
    /\ UNCHANGED unitFrame

\* readBit had to fetch a byte, and fetched 0xFF followed by next
FetchedFF(next) ==
    /\ unit.fn = "readBit"
    /\ unit.before.bitsCount = 0
    /\ At(unit.data, unit.before.offset) = 255
    /\ At(unit.data, unit.before.offset + 1) = next

\* C21: when the byte readBit fetches is 0xFF, a following 0 gives the eight
\* bits of the byte 0xFF (the first returned, seven left) and both bytes are
\* consumed; a following RSTn (0xD0..0xD7) gives no bit and no error; any
\* other following byte is the error 'unexpected marker'.
C21_ReadBitAfterFF ==
    /\ FetchedFF(0)
           => /\ unit.after.err = NoError
              /\ unit.bit = 1
              /\ unit.after.bitsData = 255
              /\ unit.after.bitsCount = 7
              /\ unit.after.offset = unit.before.offset + 2
    /\ \A next \in 208..215 :
           FetchedFF(next) => unit.after.err = NoError /\ unit.bit \notin {0, 1}
    /\ \A next \in (1..255) \ (208..215) :
           FetchedFF(next) => unit.after.err = "unexpected marker"

\* An AC table of seven codes of three bits, 000 to 110, for the symbols
\* EOB (r = 0), (r = 0, s = 1), (r = 1, s = 1), ZRL, (r = 0, s = 2), EOB
\* with r = 2 and EOB with r = 1
ACSymbols == <<0, 1, 17, 240, 2, 32, 16>>

ACTable ==
    [defined |-> TRUE,
     tree |-> buildHuffmanTable(<<0, 0, 7>>, ACSymbols).tree]

\* the last coefficient of the band of the AC scans tried
BandEnd == 20

\* scan bytes: a code in the first three bits, then the bits 01001 or 10000
ACBytes == {32 * code + rest : code \in 0..6, rest \in {9, 16}}

ACData == {<<a, b>> : a, b \in ACBytes}

\* the block before the scan: all zero, or with coefficients (in zig-zag
\* order the third and the fifth) that earlier scans left
ACBlocks ==
    {ZeroBlock,
     [ZeroBlock EXCEPT ![ZigZagAt(3) + 1] = 2, ![ZigZagAt(5) + 1] = -2]}

\* the blocks of the only component of the frame of the AC scans tried, in
\* one row
ScanBlocks == 4

\* that frame after prepareComponents, with block as its first block
ACFrame(block) ==
    [NoFrame EXCEPT
        !.progressive = TRUE,
        !.mcusPerLine = ScanBlocks,
        !.mcusPerColumn = 1,
        !.components =
            (1 :> [NewComponent(1, 1, 0) EXCEPT
                      !.blocksPerLine = ScanBlocks, !.blocksPerColumn = 1,
                      !.blocksPerLineForMcu = ScanBlocks,
                      !.blocksPerColumnForMcu = 1,
                      !.blocks = (<<0, 0>> :> block),
                      !.huffmanTableAC = ACTable])]

\* the reader and the decoder state at the start of a scan of that frame
ACScanStart(block) == ScanStart(0, ACFrame(block))

\* the parameters of a progressive AC scan over the band 1..BandEnd
ACScan(successivePrev, successive) ==
    [progressive |-> TRUE, spectralStart |-> 1, spectralEnd |-> BandEnd,
     successivePrev |-> successivePrev, successive |-> successive,
     tolerantDecoding |-> TRUE, resetInterval |-> 0, components |-> <<1>>,
     mcusPerLine |-> ScanBlocks]

FirstBlock == [defined |-> TRUE, id |-> 1, row |-> 0, col |-> 0]

NoPass == [defined |-> FALSE]

\* decodeACSuccessive(component, zz) entered: k = spectralStart, r = 0
ACSuccessiveEnter ==
    /\ NoUnitYet
    /\ \E data \in ACData, block \in ACBlocks, successive \in {0, 1} :
        unit' = [fn |-> "decodeACSuccessive", data |-> data,
                 sc |-> ACScan(1, successive), S |-> ACScanStart(block),
                 k |-> 1, r |-> 0, was |-> NoPass]
    /\ UNCHANGED unitFrame

\* one pass of its loop while (k <= e)
ACSuccessiveStep ==
    /\ unit.fn = "decodeACSuccessive"
    /\ unit.S.err = NoError
    /\ unit.k <= unit.sc.spectralEnd
    /\ \E n \in {ACSuccessivePass(unit.data, unit.S, FirstBlock, unit.sc, unit.k, unit.r)} :
        unit' = [unit EXCEPT !.S = n.s, !.k = n.k, !.r = n.r,
                             !.was = [defined |-> TRUE, S |-> unit.S, k |-> unit.k,
                                      r |-> unit.r]]
    /\ UNCHANGED unitFrame

\* a pass of the loop of decodeACSuccessive was made from state
PassedFrom(state) ==
    /\ unit.fn = "decodeACSuccessive"
    /\ unit.was.defined
    /\ unit.was.S.successiveACState = state

\* the code rs that the pass made in the initial state decoded
PassedCode == decodeHuffman(unit.data, ACTable, unit.was.S).val

\* the pass skipped a zero item and its counter reached 0
CounterReachedZero == unit.k = unit.was.k + 1 /\ unit.r = 0 /\ unit.was.r = 1

\* C22: in decodeACSuccessive a code with s = 1 and r > 0, and the code ZRL
\* (counter 16), enter the state of skipping zeros; when the counter
\* reaches 0 that state hands over to the state that places the value, and
\* it never goes to the initial state; a code with s outside {0, 1} is the
\* error 'invalid ACn encoding'.
C22_SkippingHandsOverToPlacing ==
    /\ (PassedFrom(0) /\ PassedCode = 240)
           => unit.S.successiveACState = 1 /\ unit.r = 16
    /\ (PassedFrom(0) /\ PassedCode % 16 = 1 /\ PassedCode \div 16 > 0)
           => unit.S.successiveACState = 2 /\ unit.r = PassedCode \div 16
    /\ (PassedFrom(0) /\ PassedCode % 16 \notin {0, 1})
           => unit.S.err = "invalid ACn encoding"
    /\ ((PassedFrom(1) \/ PassedFrom(2)) /\ unit.S.err = NoError)
           => /\ CounterReachedZero => unit.S.successiveACState = 3
              /\ unit.S.successiveACState # 0

\* C22 as the code has it: the state of skipping zeros entered by a code
\* with s = 1 and r > 0 hands over to the state that places the value when
\* its counter reaches 0, and never goes to the initial state; entered by ZRL
\* (counter 16) it goes back to the initial state when its counter reaches
\* 0, and never places a value; until the counter reaches 0 both stay; a
\* code with s outside {0, 1} is the error 'invalid ACn encoding'.
C22_SkippingHandsOver ==
    /\ (PassedFrom(0) /\ PassedCode = 240)
           => unit.S.successiveACState = 1 /\ unit.r = 16
    /\ (PassedFrom(0) /\ PassedCode % 16 = 1 /\ PassedCode \div 16 > 0)
           => unit.S.successiveACState = 2 /\ unit.r = PassedCode \div 16
    /\ (PassedFrom(0) /\ PassedCode % 16 \notin {0, 1})
           => unit.S.err = "invalid ACn encoding"
    /\ (PassedFrom(2) /\ unit.S.err = NoError)
           => unit.S.successiveACState = (IF CounterReachedZero THEN 3 ELSE 2)
    /\ (PassedFrom(1) /\ unit.S.err = NoError)
           => unit.S.successiveACState = (IF CounterReachedZero THEN 0 ELSE 1)

\* the sixteen zero items of a ZRL were skipped
C22_Witness ==
    /\ PassedFrom(1)
    /\ CounterReachedZero
    /\ unit.k = 17
    /\ unit.S.successiveACState = 0

\* scan bytes of an AC-first scan: a byte of codes, then RST0 or not, then
\* another byte of codes
ACFirstData ==
    {<<a>> \o rst \o <<b>> : a \in ACBytes, b \in {41, 208},
                            rst \in {<<>>, <<255, 208>>}}

\* resetInterval as the loop of decodeScan uses it
ResetIntervalOf(sc) == IF sc.resetInterval = 0 THEN ScanBlocks ELSE sc.resetInterval

\* decodeScan of an AC-first scan entered, up to the first block of its
\* first restart interval.  owed and owedInInterval count the blocks still to
\* be skipped after the last end-of-band run: owed whatever comes between,
\* owedInInterval up to the end of the restart interval.
ACFirstEnter ==
    /\ NoUnitYet
    /\ \E data \in ACFirstData, resetInterval \in {0, 2} :
        \E sc \in {[ACScan(0, 0) EXCEPT !.resetInterval = resetInterval]} :
            unit' = [fn |-> "decodeACFirst", data |-> data, sc |-> sc,
                     S |-> IntervalStart(ACScanStart(ZeroBlock), sc),
                     mcu |-> 0, n |-> 0, ended |-> FALSE, owed |-> 0,
                     owedInInterval |-> 0, was |-> NoPass]
    /\ UNCHANGED unitFrame

\* decodeBlock(component, decodeFn, mcu); mcu++ in the loop over n
ACFirstBlock ==
    /\ unit.fn = "decodeACFirst"
    /\ ~unit.ended
    /\ unit.S.err = NoError
    /\ unit.n < ResetIntervalOf(unit.sc)
    /\ \E S \in {decodeBlock(unit.data, unit.S, unit.sc, 1, unit.mcu)} :
        unit' = [unit EXCEPT
                    !.S = S, !.mcu = unit.mcu + 1, !.n = unit.n + 1,
                    !.owed = IF unit.owed > 0 THEN unit.owed - 1 ELSE S.eobrun,
                    !.owedInInterval = IF unit.owedInInterval > 0
                                       THEN unit.owedInInterval - 1 ELSE S.eobrun,
                    !.was = [defined |-> TRUE, block |-> TRUE, S |-> unit.S,
                             owed |-> unit.owed,
                             owedInInterval |-> unit.owedInInterval]]
    /\ UNCHANGED unitFrame

\* the end of a restart interval: the marker after it and, after RSTn with
\* blocks left, the start of the next
ACFirstRestart ==
    /\ unit.fn = "decodeACFirst"
    /\ ~unit.ended
    /\ unit.S.err = NoError
    /\ unit.n = ResetIntervalOf(unit.sc)
    /\ \E e \in {IntervalEnd(unit.data, unit.S, unit.mcu, ScanBlocks)} :
        unit' = [unit EXCEPT
                    !.S = IF e.again /\ unit.mcu < ScanBlocks
                          THEN IntervalStart(e.s, unit.sc) ELSE e.s,
                    !.n = 0,
                    !.ended = ~(e.again /\ unit.mcu < ScanBlocks),
                    !.owedInInterval = 0,
                    !.was = [defined |-> TRUE, block |-> FALSE, S |-> unit.S,
                             owed |-> unit.owed,
                             owedInInterval |-> unit.owedInInterval]]
    /\ UNCHANGED unitFrame

\* a block of the AC-first scan was just passed to decodeACFirst
BlockDecoded ==
    /\ unit.fn = "decodeACFirst"
    /\ unit.was.defined
    /\ unit.was.block
    /\ unit.mcu <= ScanBlocks

\* the block consumed no bit and no coefficient was written
NothingRead ==
    /\ unit.S.offset = unit.was.S.offset
    /\ unit.S.bitsCount = unit.was.S.bitsCount
    /\ unit.S.comps = unit.was.S.comps
    /\ unit.S.err = NoError

\* the first code of the scan, and the run (1 << r) + b - 1 when it is an
\* end-of-band code with r < 15
FirstCodeOfScan == decodeHuffman(unit.data, ACTable, ACScanStart(ZeroBlock))

FirstRun ==
    (2 ^ (FirstCodeOfScan.val \div 16))
        + receive(unit.data, FirstCodeOfScan.val \div 16, FirstCodeOfScan.s).val - 1

FirstCodeIsEOB ==
    /\ FirstCodeOfScan.s.err = NoError
    /\ FirstCodeOfScan.val % 16 = 0
    /\ FirstCodeOfScan.val \div 16 < 15

MaxCodeLength == 3
MaxCodesOfLength == 3

CodeLengthTables == [1..MaxCodeLength -> 0..MaxCodesOfLength]

\* the symbols of a table, all different: HUFFVAL[j] = 10 + j
SymbolsOf(codeLengths) ==
    [j \in 1..CodeLengthSum(codeLengths, 0, Len(codeLengths)) |-> 10 + j]

\* one byte of scan data for each first four bits
HuffmanData == {<<16 * first + 5>> : first \in 0..15}

\* buildHuffmanTable(codeLengths, values) as DHT calls it, and
\* decodeHuffman(tree) at the start of a scan over data
DecodeHuffman ==
    /\ NoUnitYet
    /\ \E codeLengths \in CodeLengthTables, data \in HuffmanData :
        \E built \in {buildHuffmanTable(codeLengths, SymbolsOf(codeLengths))} :
            unit' = [fn |-> "decodeHuffman", codeLengths |-> codeLengths,
                     values |-> SymbolsOf(codeLengths), data |-> data, built |-> built,
                     decoded |->
                         IF built.ok
                         THEN decodeHuffman(data, [defined |-> TRUE, tree |-> built.tree],
                                            [offset |-> 0, bitsData |-> 0,
                                             bitsCount |-> 0, err |-> NoError])
                         ELSE [val |-> Undef]]
    /\ UNCHANGED unitFrame

\* the sum of BITS[i] * 2^(longest - i): the part of the code space of the
\* longest length that the codes take
RECURSIVE CodeSpaceTaken(_, _)
CodeSpaceTaken(codeLengths, i) ==
    IF i = 0 THEN 0
    ELSE CodeSpaceTaken(codeLengths, i - 1)
         + codeLengths[i] * 2 ^ (Len(codeLengths) - i)

Overflows(codeLengths) ==
    CodeSpaceTaken(codeLengths, Len(codeLengths)) > 2 ^ Len(codeLengths)

Fills(codeLengths) ==
    CodeSpaceTaken(codeLengths, Len(codeLengths)) = 2 ^ Len(codeLengths)

\* the canonical codes, as the encoder's computeHuffmanTbl assigns them to
\* the same BITS and HUFFVAL: symbol -> <<code, length>>
CanonicalCodes ==
    computeHuffmanTbl(<<0>> \o unit.codeLengths \o [i \in 1..(16 - Len(unit.codeLengths)) |-> 0],
                      unit.values)

\* the bits of a code, the first one first
BitsOf(code) == [i \in 1..code[2] |-> (code[1] \div 2 ^ (code[2] - i)) % 2]

\* the first n bits of the data
FirstBits(n) == [i \in 1..n |-> (unit.data[1] \div 2 ^ (8 - i)) % 2]

\* the bits that decodeHuffman read
BitsRead == unit.decoded.s.offset * 8 - unit.decoded.s.bitsCount

\* the tree holds every symbol at the path of its canonical code
TreeIsCanonical ==
    /\ unit.built.ok
    /\ \A j \in 1..Len(unit.values) :
           /\ BitsOf(CanonicalCodes[unit.values[j]]) \in DOMAIN unit.built.tree
           /\ unit.built.tree[BitsOf(CanonicalCodes[unit.values[j]])] = unit.values[j]

\* decodeHuffman returned the symbol of a code, having read just that code
DecodedOneCode ==
    /\ unit.decoded.s.err = NoError
    /\ \E j \in 1..Len(unit.values) :
           /\ unit.decoded.val = unit.values[j]
           /\ BitsRead = CanonicalCodes[unit.values[j]][2]
           /\ FirstBits(BitsRead) = BitsOf(CanonicalCodes[unit.values[j]])

\* the data begins with a code of the table
BeginsWithCode ==
    \E j \in 1..Len(unit.values) :
        FirstBits(CanonicalCodes[unit.values[j]][2]) = BitsOf(CanonicalCodes[unit.values[j]])

\* C24: for a table whose codes do not overflow the code space, the tree
\* maps the canonical code of the j-th symbol (the code computeHuffmanTbl
\* gives it) to HUFFVAL[j], and decoding any bits returns a symbol after
\* exactly one code was read; a table that overflows is rejected when built.
C24_HuffmanTree ==
    unit.fn = "decodeHuffman"
        => /\ ~Overflows(unit.codeLengths) => (TreeIsCanonical /\ DecodedOneCode)
           /\ Overflows(unit.codeLengths) => ~unit.built.ok

\* C24 as the code has it: for a table whose codes leave part of the code
\* space of the longest length free, the tree maps the canonical code of
\* the j-th symbol to HUFFVAL[j]; decoding bits that begin with a code
\* returns its symbol after exactly that code was read, and decoding bits
\* that begin with no code is the error 'invalid huffman sequence'; a table
\* whose codes fill or overflow the code space is rejected when built.
C24_HuffmanTreeOfPartTable ==
    unit.fn = "decodeHuffman"
        => /\ (~Overflows(unit.codeLengths) /\ ~Fills(unit.codeLengths))
                  => /\ TreeIsCanonical
                     /\ BeginsWithCode => DecodedOneCode
                     /\ ~BeginsWithCode
                            => unit.decoded.s.err = "invalid huffman sequence"
           /\ (Overflows(unit.codeLengths) \/ Fills(unit.codeLengths))
                  => ~unit.built.ok

\* a code of three bits was decoded from a table with codes of one, two and
\* three bits
C24_Witness ==
    /\ unit.fn = "decodeHuffman"
    /\ unit.codeLengths = <<1, 1, 1>>
    /\ DecodedOneCode
    /\ BitsRead = 3
    /\ unit.decoded.val = 13

\* the encoder in encode when its loop over the blocks has written up to two
\* codes from BitStrings
HeadersWritten == EncodeHeaders(NewEncoder(50), Uniform(1, 1, Red), 50)

OneCodeWritten == {writeBits(HeadersWritten, bs) : bs \in BitStrings}

ScanEncoders ==
    {HeadersWritten} \cup OneCodeWritten
        \cup {writeBits(E, bs) : E \in OneCodeWritten, bs \in BitStrings}

\* the end of encode, after the loop over the blocks: the bit alignment and
\* EOI
BitAlignment ==
    /\ NoUnitYet
    /\ \E E \in ScanEncoders :
        unit' = [fn |-> "EncodeEnd", before |-> E, after |-> EncodeEnd(E)]
    /\ UNCHANGED unitFrame

\* the bytes written between the last whole byte of the entropy-coded data
\* and EOI
BytesBeforeEOI ==
    SubSeq(unit.after.byteout, Len(unit.before.byteout) + 1,
           Len(unit.after.byteout) - 2)

\* the pending byte with its free low bits set to 1, and the 0 stuffed
\* after it when that makes 0xFF
PaddedByte ==
    LET byte == unit.before.bytenew + 2 ^ (unit.before.bytepos + 1) - 1
    IN  IF byte = 255 THEN <<255, 0>> ELSE <<byte>>

\* C25: at the end of the scan the encoder pads the pending partial byte
\* with k 1-bits, 0 <= k <= 7, and when the entropy-coded data ends on a
\* byte boundary it writes nothing between the data and EOI.
C25_PaddingCompletesPartialByte ==
    unit.fn = "EncodeEnd"
        => /\ SubSeq(unit.after.byteout, 1, Len(unit.before.byteout))
                  = unit.before.byteout
           /\ SubSeq(unit.after.byteout, Len(unit.after.byteout) - 1,
                     Len(unit.after.byteout)) = <<255, 217>>
           /\ unit.before.bytepos = 7 => BytesBeforeEOI = <<>>
           /\ unit.before.bytepos < 7 => BytesBeforeEOI = PaddedByte

\* the images whose blocks are visited: every width and height up to MaxSide
MaxSide == 17

\* encode at its loops while (y < height) and while (x < quadWidth), before
\* the first block
BlockLoopEnter ==
    /\ NoUnitYet
    /\ \E width \in 1..MaxSide, height \in 1..MaxSide :
        unit' = [fn |-> "encodeBlocks", width |-> width, height |-> height,
                 x |-> 0, y |-> 0, visited |-> 0, block |-> <<Undef, Undef>>,
                 sampled |-> <<>>]
    /\ UNCHANGED unitFrame

\* one block of the loops: the indices of the 64 samples read for it, then
\* x += 32; at the end of a row of blocks, y += 8 and x = 0
BlockLoopStep ==
    /\ unit.fn = "encodeBlocks"
    /\ unit.y < unit.height
    /\ unit' = IF unit.x >= unit.width * 4
               THEN [unit EXCEPT !.x = 0, !.y = unit.y + 8]
               ELSE [unit EXCEPT
                        !.x = unit.x + 32,
                        !.visited = unit.visited + 1,
                        !.block = <<unit.x, unit.y>>,
                        !.sampled = [pos \in 0..63 |->
                                        SampleIndex(unit.width, unit.height,
                                                    unit.x, unit.y, pos)]]
    /\ UNCHANGED unitFrame

\* a block was just visited: unit.block holds its x (in bytes of a row) and y
BlockVisited ==
    /\ unit.fn = "encodeBlocks"
    /\ unit.visited > 0
    /\ unit.x = unit.block[1] + 32
    /\ unit.y = unit.block[2]

BlocksPerRow == CeilDiv(unit.width, 8)

\* C28: the encoder visits ceil(width / 8) * ceil(height / 8) blocks in
\* raster order; the sample (row, col) of the block with pixel origin
\* (X, Y) is read from the pixel (min(X + col, width - 1),
\* min(Y + row, height - 1)), and the three bytes read of it lie inside
\* the buffer of 4 * width * height bytes.
C28_BlocksAndSamples ==
    /\ BlockVisited
           => /\ unit.block[1] = 32 * ((unit.visited - 1) % BlocksPerRow)
              /\ unit.block[2] = 8 * ((unit.visited - 1) \div BlocksPerRow)
              /\ \A pos \in 0..63 :
                     /\ unit.sampled[pos]
                            = 4 * (Min(unit.block[2] + (pos \div 8), unit.height - 1)
                                       * unit.width
                                   + Min((unit.block[1] \div 4) + (pos % 8), unit.width - 1))
                     /\ unit.sampled[pos] >= 0
                     /\ unit.sampled[pos] + 2 < 4 * unit.width * unit.height
    /\ (unit.fn = "encodeBlocks" /\ unit.y >= unit.height)
           => unit.visited = BlocksPerRow * CeilDiv(unit.height, 8)
    /\ unit.fn = "encodeBlocks"
           => unit.visited <= BlocksPerRow * CeilDiv(unit.height, 8)

\* the last block of an image of 17 x 9 pixels, padded at the right and at
\* the bottom
C28_Witness ==
    /\ BlockVisited
    /\ unit.width = 17
    /\ unit.height = 9
    /\ unit.visited = 6
    /\ unit.sampled[63] = 4 * (8 * 17 + 16)

\* widths and heights of frames: within one block, one more, and up to two
\* MCUs of 4 x 4 blocks
Sides == {1, 9, 17, 33}

\* a frame of two components as case SOF leaves it before prepareComponents
FrameOf(width, height, hv) ==
    [NoFrame EXCEPT
        !.defined = TRUE, !.precision = 8,
        !.scanLines = height, !.samplesPerLine = width,
        !.components = (1 :> NewComponent(hv[1], hv[2], 0))
                           @@ (2 :> NewComponent(hv[3], hv[4], 0)),
        !.componentsOrder = <<1, 2>>]

\* the budget of a decode with the default ceiling of 512 MB
DefaultBudget ==
    [total |-> 0, max |-> 512 * BytesPerMB, granted |-> 0, failed |-> 0,
     err |-> NoError]

\* prepareComponents(frame) for a frame of two components with sampling
\* factors in 1..4
PrepareComponents ==
    /\ NoUnitYet
    /\ \E width \in Sides, height \in Sides, hv \in [1..4 -> 1..4] :
        \E r \in {prepareComponents(FrameOf(width, height, hv), DefaultBudget)} :
            unit' = [fn |-> "prepareComponents", frame |-> r.frame, err |-> r.M.err]
    /\ UNCHANGED unitFrame

\* the <<blockRow, blockCol>> that a scan of the component id alone passes
\* to the decode function: decodeBlock for mcu < mcuExpected, the one
\* restart interval of a scan that case SOS starts (its resetInterval is 0)
BlocksOfOwnScan(id) ==
    {DecodeBlockIndex(unit.frame.components[id], mcu) :
        mcu \in 0..(McuExpected(unit.frame, [components |-> <<id>>]) - 1)}

\* those of a scan of both components (decodeMcu for every MCU, row < v and
\* col < h)
BlocksOfJointScan(id) ==
    {DecodeMcuIndex(unit.frame.components[id], unit.frame.mcusPerLine, mcu, row, col) :
        mcu \in 0..(McuExpected(unit.frame, [components |-> <<1, 2>>]) - 1),
        row \in 0..(unit.frame.components[id].v - 1),
        col \in 0..(unit.frame.components[id].h - 1)}

\* those that buildComponentData reads
BlocksAssembled(id) ==
    (0..(unit.frame.components[id].blocksPerColumn - 1))
        \X (0..(unit.frame.components[id].blocksPerLine - 1))

\* the grid of blocks that prepareComponents allocated
BlocksAllocated(id) ==
    (0..(unit.frame.components[id].blocksPerColumnForMcu - 1))
        \X (0..(unit.frame.components[id].blocksPerLineForMcu - 1))

\* C29: for sampling factors in 1..4 every component has blocksPerLine <=
\* mcusPerLine * h and blocksPerColumn <= mcusPerColumn * v, and every block
\* that a scan of the component alone, an interleaved scan or the assembler
\* uses lies inside the allocated grid of (mcusPerColumn * v) x
\* (mcusPerLine * h) blocks.
C29_BlocksInsideGrid ==
    (unit.fn = "prepareComponents" /\ unit.err = NoError)
        => \A id \in DOMAIN unit.frame.components :
               LET c == unit.frame.components[id]
               IN  /\ c.blocksPerLineForMcu = unit.frame.mcusPerLine * c.h
                   /\ c.blocksPerColumnForMcu = unit.frame.mcusPerColumn * c.v
                   /\ c.blocksPerLine <= c.blocksPerLineForMcu
                   /\ c.blocksPerColumn <= c.blocksPerColumnForMcu
                   /\ BlocksOfOwnScan(id) \subseteq BlocksAllocated(id)
                   /\ BlocksOfJointScan(id) \subseteq BlocksAllocated(id)
                   /\ BlocksAssembled(id) \subseteq BlocksAllocated(id)

\* a frame 33 pixels wide whose second component has 3 of 4 samples per
\* line: the assembler uses 4 of its 6 blocks per line and an interleaved
\* scan all 6
C29_Witness ==
    /\ unit.fn = "prepareComponents"
    /\ unit.err = NoError
    /\ unit.frame.samplesPerLine = 33
    /\ unit.frame.maxH = 4
    /\ unit.frame.components[2].h = 3
    /\ unit.frame.components[2].blocksPerLine = 4
    /\ unit.frame.components[2].blocksPerLineForMcu = 6
    /\ <<0, 3>> \in BlocksOfOwnScan(2)
    /\ <<0, 5>> \in BlocksOfJointScan(2)

\* the Huffman tables of the decoder that the DHT segment of the encoder
\* gives: the counts of the codes of 1 to 16 bits and the symbols
StdTable(nrcodes, values) ==
    [defined |-> TRUE, tree |-> buildHuffmanTable(SubSeq(nrcodes, 2, 17), values).tree]

StdDCLuminance == StdTable(std_dc_luminance_nrcodes, std_dc_luminance_values)

StdACLuminance == StdTable(std_ac_luminance_nrcodes, std_ac_luminance_values)

StdDCChrominance == StdTable(std_dc_chrominance_nrcodes, std_dc_chrominance_values)

StdACChrominance == StdTable(std_ac_chrominance_nrcodes, std_ac_chrominance_values)

\* the values of the coefficients tried and the previous DC values
Magnitudes == {0, 1, -1, -6, 1023, -1024, 32767}

PreviousDCs == {0, 5, -1024, 1023, -32767}

\* the blocks tried, in the order of DU: the DC value, and up to two other
\* coefficients, after runs of fewer than 16, of 16 and of more than 32
\* zeros, the last one being DU[63] or not
DUs ==
    {Block(dc, (p + 1 :> a) @@ (q + 1 :> b)) :
        dc \in {0, 5, -1024, 1023, 2048}, p \in {1, 17}, a \in Magnitudes,
        q \in {40, 63}, b \in Magnitudes}

\* a frame of one block after prepareComponents, its component with the
\* tables of the encoder and the predictor pred
OneBlockFrame(luminance, pred) ==
    [NoFrame EXCEPT
        !.mcusPerLine = 1,
        !.mcusPerColumn = 1,
        !.components =
            (1 :> [NewComponent(1, 1, 0) EXCEPT
                      !.blocksPerLine = 1, !.blocksPerColumn = 1,
                      !.blocksPerLineForMcu = 1, !.blocksPerColumnForMcu = 1,
                      !.huffmanTableDC =
                          IF luminance THEN StdDCLuminance ELSE StdDCChrominance,
                      !.huffmanTableAC =
                          IF luminance THEN StdACLuminance ELSE StdACChrominance,
                      !.pred = pred])]

\* processDU from its reordered block DU on, at the start of the scan, and
\* the bit alignment of encode
BlockRoundTrip ==
    /\ NoUnitYet
    /\ \E DU \in DUs, DC \in PreviousDCs, luminance \in BOOLEAN :
        \E w \in {EncodeDU(BlankEncoder, DU, DC,
                           IF luminance THEN YDC_HT ELSE UVDC_HT,
                           IF luminance THEN YAC_HT ELSE UVAC_HT)} :
            unit' = [fn |-> "processDU", DU |-> DU, DC |-> DC, luminance |-> luminance,
                     written |-> w, data |-> EncodeEnd(w.E).byteout, read |-> NoUnit]
    /\ UNCHANGED unitFrame

\* decodeBaseline of the bytes written, at the start of a scan with the
\* predictor DC
BlockReadBack ==
    /\ unit.fn = "processDU"
    /\ unit.written.E.err = NoError
    /\ unit' = [unit EXCEPT
                   !.fn = "decodeBaseline",
                   !.read = decodeBaseline(
                                unit.data,
                                ScanStart(0, OneBlockFrame(unit.luminance, unit.DC)),
                                FirstBlock)]
    /\ UNCHANGED unitFrame

\* the block was written and read back: the DC difference and each
\* coefficient had a code in the tables of the encoder
ReadBack == unit.fn = "decodeBaseline"

\* the block the decoder filled has DU[k] at dctZigZag[k] for every k, and
\* its predictor is the DC value that processDU returned
SameBlock ==
    /\ unit.read.err = NoError
    /\ \A k \in 0..63 :
           BlockOf(unit.read.comps[1], <<0, 0>>)[dctZigZag[k + 1] + 1] = unit.DU[k + 1]
    /\ unit.read.comps[1].pred = unit.written.DC
    /\ unit.written.DC = unit.DU[1]

\* the DC difference is one of the categories 0 to 11 and the other
\* coefficients are of the categories 1 to 10, those of the symbols of
\* std_dc_*_values and of std_ac_*_values
InTables ==
    /\ Abs(unit.DU[1] - unit.DC) < 2 ^ 11
    /\ \A k \in 1..63 : Abs(unit.DU[k + 1]) < 2 ^ 10

UnitNext ==
    \/ ReadBit
    \/ ACSuccessiveEnter
    \/ ACSuccessiveStep
    \/ ACFirstEnter
    \/ ACFirstBlock
    \/ ACFirstRestart
    \/ DecodeHuffman
    \/ BitAlignment
    \/ BlockLoopEnter
    \/ BlockLoopStep
    \/ PrepareComponents
    \/ BlockRoundTrip
    \/ BlockReadBack

UnitSpec == Init /\ [][UnitNext]_vars

====
